---- MODULE Spec2Model ----
(***************************************************************************)
(* Access-control and integrity layer of the social-media backend:         *)
(* the resolvers and services for posts, comments, likes and ratings over  *)
(* the relational store declared in prisma/schema.prisma, the error        *)
(* classifier (ErrorHandler.handle) with the transport's formatError, and  *)
(* the bearer-credential codec (JwtUtils).                                 *)
(*                                                                         *)
(* Every resolver call is a process that runs from one await to the next;  *)
(* each persistence call is one atomic step against the store, so two      *)
(* calls in flight interleave between their persistence calls.             *)
(***************************************************************************)
EXTENDS Integers, Sequences, FiniteSets, TLC

VARIABLES
  users,      \* stored User rows     [id, role, username, email, bio]
  posts,      \* stored Post rows     [id, userId, caption]
  comments,   \* stored Comment rows  [id, userId, postId, content, parentId]
  likes,      \* stored Like rows     [id, userId, postId]
  ratings,    \* stored Rating rows   [id, userId, postId, value]
  nextId,     \* the next fresh row id (uuid() never repeats)
  reqs,       \* the resolver calls in flight, one per slot
  started,    \* number of resolver calls begun so far
  budget,     \* number of resolver calls the behaviour may begin
  failure,    \* classifier pipeline: the failure raised inside the system
  server,     \* classifier pipeline: which server was built
  nodeEnv,    \* classifier pipeline: config.nodeEnv
  stage,      \* classifier pipeline: position of the failure on its way out
  external,   \* classifier pipeline: ErrorHandler.handle(failure)
  response,   \* classifier pipeline: the error as the transport holds / sends it
  token,      \* credential codec: the credential presented
  jwtSecret,  \* credential codec: config.jwtSecret (Undefined when unset)
  now,        \* credential codec: the clock, in hours
  verdict,    \* credential codec: outcome of verifyToken
  issuing,    \* credential codec: the arguments of generateToken
  minted      \* credential codec: outcome of generateToken / refreshToken

storeVars == <<users, posts, comments, likes, ratings, nextId>>
callVars == <<reqs, started, budget>>
classifyVars == <<failure, server, nodeEnv, stage, external, response>>
jwtVars == <<token, jwtSecret, now, verdict, issuing, minted>>
vars == <<users, posts, comments, likes, ratings, nextId, reqs, started, budget,
          failure, server, nodeEnv, stage, external, response,
          token, jwtSecret, now, verdict, issuing, minted>>

(***************************************************************************)
(* Bounds of the model.                                                    *)
(***************************************************************************)
\* resolver calls that may be in flight at once
MaxSlots == 2
\* resolver calls begun in one behaviour
MaxCalls == 3
\* resolver calls begun in one behaviour that draws on all eleven mutations
MaxCallsAll == 2
\* seconds on the credential clock
MaxTime == 2

\* null / absent (a missing optional id, a null context.user, no row found)
None == 0

(***************************************************************************)
(* Error taxonomy: src/types/error.ts                                      *)
(***************************************************************************)
NOT_FOUND == "NOT_FOUND"
VALIDATION_ERROR == "VALIDATION_ERROR"
UNAUTHORIZED == "UNAUTHORIZED"
UNAUTHENTICATED == "UNAUTHENTICATED"
CONFLICT == "CONFLICT"
BAD_USER_INPUT == "BAD_USER_INPUT"
RATE_LIMIT_EXCEEDED == "RATE_LIMIT_EXCEEDED"
INTERNAL_SERVER_ERROR == "INTERNAL_SERVER_ERROR"

ErrorCodes == {NOT_FOUND, VALIDATION_ERROR, UNAUTHORIZED, UNAUTHENTICATED,
               CONFLICT, BAD_USER_INPUT, RATE_LIMIT_EXCEEDED,
               INTERNAL_SERVER_ERROR}

\* an absent property of a JavaScript object
Undefined == "undefined"

(* A thrown value.  cls is the constructor chain that instanceof sees       *)
(* ("ServiceError", "GraphQLError", "Error" for any other Error, "Object"   *)
(* for a plain object), name is error.name, message is the text as a        *)
(* sequence of segments, code / statusCode / details are the fields a       *)
(* ServiceError carries directly and a GraphQLError carries under           *)
(* extensions.                                                              *)
Thrown(cls, name, message, code, statusCode, details) ==
  [cls |-> cls, name |-> name, message |-> message, code |-> code,
   statusCode |-> statusCode, details |-> details]

\* no failure
NoError == Thrown("none", Undefined, <<>>, Undefined, None, Undefined)

\* new GraphQLError(message, { extensions: { code } })
GraphQLError(message, code) ==
  Thrown("GraphQLError", "GraphQLError", <<message>>, code, None, Undefined)

\* class ServiceError and its subclasses
ServiceError(name, message, code, statusCode, details) ==
  Thrown("ServiceError", name, <<message>>, code, statusCode, details)

NotFoundError(resource, details) ==
  ServiceError("NotFoundError", resource \o " not found", NOT_FOUND, 404, details)
ValidationError(message, details) ==
  ServiceError("ValidationError", message, VALIDATION_ERROR, 400, details)
AuthorizationError ==
  ServiceError("AuthorizationError", "Not authorized", UNAUTHORIZED, 403, Undefined)
AuthenticationError ==
  ServiceError("AuthenticationError", "Not authenticated", UNAUTHENTICATED, 401, Undefined)
ConflictError(message, details) ==
  ServiceError("ConflictError", message, CONFLICT, 409, details)
RateLimitError ==
  ServiceError("RateLimitError", "Too many requests", RATE_LIMIT_EXCEEDED, 429, Undefined)
InternalServerError ==
  ServiceError("InternalServerError", "Internal server error", INTERNAL_SERVER_ERROR, 500, Undefined)

\* a failure of the Prisma client: an Error named
\* PrismaClientKnownRequestError whose message ends with the segments given
PrismaError(code, segments) ==
  Thrown("Error", "PrismaClientKnownRequestError",
         <<"Invalid prisma invocation: ">> \o segments, code, None,
         Undefined)

\* the failures of a create, update or delete, as the Prisma client words
\* them: a unique constraint (P2002), a foreign key (P2003), a missing row
\* on update and on delete (P2025)
P2002 == PrismaError("P2002", <<"Unique constraint failed", " on the constraint">>)
P2003 == PrismaError("P2003", <<"Foreign key constraint failed", " on the field">>)
P2025_update ==
  PrismaError("P2025", <<"An operation failed because it depends on one or more records that were required but not found. ",
                "Record to update not found", ".">>)
P2025_delete ==
  PrismaError("P2025", <<"An operation failed because it depends on one or more records that were required but not found. ",
                "Record to delete does not exist", ".">>)

(***************************************************************************)
(* Authorization policy: src/middleware/error-handler.middleware.ts        *)
(***************************************************************************)
\* authenticate that lets a null context.user through
authenticate_noCheck(user) == TRUE

\* AuthMiddleware.authenticate: passes iff context.user is not null
authenticate(user) == user # None

\* the failure authenticate throws
NotAuthenticated == GraphQLError("Not authenticated", UNAUTHENTICATED)

\* authorize that forgets the ownership test: only the role decides
authorize_roleOnly(userId, resourceUserId, role) == role = "ADMIN" \/ role = "USER"

\* authorize that knows no ADMIN: only the owner passes
authorize_ownerOnly(userId, resourceUserId, role) == userId = resourceUserId

\* AuthMiddleware.authorize: passes iff owner or ADMIN
authorize(userId, resourceUserId, role) ==
  ~(userId # resourceUserId /\ role # "ADMIN")

\* the failure authorize throws
NotAuthorized == GraphQLError("Not authorized", UNAUTHORIZED)

(***************************************************************************)
(* The store: prisma/schema.prisma                                         *)
(***************************************************************************)
\* the users stored when the behaviour starts: one USER (the default role)
\* and one ADMIN
InitUsers == {[id |-> 1, role |-> "USER", username |-> 1, email |-> 1,
               bio |-> 0],
              [id |-> 2, role |-> "ADMIN", username |-> 2, email |-> 2,
               bio |-> 0]}

UserIdsOf(us) == {u.id : u \in us}

\* the posts stored when the behaviour starts: one by each user
InitPosts == {[id |-> u.id, userId |-> u.id, caption |-> 0] : u \in InitUsers}

\* the comments stored when the behaviour starts: a comment by the USER on
\* the USER's post and a reply to it by the ADMIN
InitComments ==
  LET top == Cardinality(InitPosts) + 1 IN
  {[id |-> top, userId |-> 1, postId |-> 1, content |-> 0, parentId |-> None],
   [id |-> top + 1, userId |-> 2, postId |-> 1, content |-> 0, parentId |-> top]}

\* first id handed out to a row created during the behaviour
FirstFreshId == Cardinality(InitPosts) + Cardinality(InitComments) + 1

PostIdsOf(ps) == {p.id : p \in ps}
CommentIdsOf(cs) == {c.id : c \in cs}

\* the null a lookup returns when no row matches
NoRow == [id |-> None]

\* a lookup result that is a row
Found(row) == row.id # None

\* findUnique({ where: { id } }) on a table: the row, or null
FindUnique(table, id) ==
  IF \E row \in table : row.id = id
    THEN CHOOSE row \in table : row.id = id
    ELSE NoRow

\* findFirst({ where: { userId, postId } }): one matching row, or null
\* a lookup that never finds the row
FindFirst_blind(table, userId, postId) == NoRow

\* prisma.<model>.findFirst({ where: { userId, postId } })
FindFirst(table, userId, postId) ==
  LET hits == {row \in table : row.userId = userId /\ row.postId = postId}
  IN IF hits = {} THEN NoRow
     ELSE CHOOSE row \in hits : \A other \in hits : row.id <= other.id

\* the foreign keys of a row to User and Post (relation fields user, post)
UserPostFkOk(userId, postId) ==
  userId \in UserIdsOf(users) /\ postId \in PostIdsOf(posts)

\* Like without its unique constraint
LikeUniqueOk_dropped(userId, postId) == TRUE

\* @@unique([userId, postId]) on Like
LikeUniqueOk(userId, postId) ==
  ~\E l \in likes : l.userId = userId /\ l.postId = postId

\* Rating without its unique constraint
RatingUniqueOk_dropped(userId, postId) == TRUE

\* @@unique([userId, postId]) on Rating
RatingUniqueOk(userId, postId) ==
  ~\E g \in ratings : g.userId = userId /\ g.postId = postId

\* Comment.parentId as a plain column, no relation behind it
CommentParentFkOk_dropped(parentId) == TRUE

\* the foreign key Comment.parentId -> Comment.id
CommentParentFkOk(parentId) ==
  parentId = None \/ parentId \in CommentIdsOf(comments)

\* a referential action that leaves the replies' parent ids as they were
SetNull_dangling(c, gone) == c

\* onDelete: SetNull on Comment.parent, for the deleted comments gone
SetNull(c, gone) ==
  IF c.parentId \in gone THEN [c EXCEPT !.parentId = None] ELSE c

\* the comment table after the rows with ids in gone are deleted
CommentsWithout(gone) ==
  {SetNull(c, gone) : c \in {x \in comments : x.id \notin gone}}

\* prisma.comment.delete: the row goes, its replies keep living, parent null
DeleteCommentRow(id) ==
  /\ comments' = CommentsWithout({id})
  /\ UNCHANGED <<users, posts, likes, ratings>>

\* a post deletion with no referential action: only the post row goes
DeletePostRow_noCascade(id) ==
  /\ posts' = {p \in posts : p.id # id}
  /\ UNCHANGED <<users, comments, likes, ratings>>

\* prisma.post.delete: onDelete: Cascade to the post's comments, likes, ratings
DeletePostRow(id) ==
  LET gone == {c.id : c \in {x \in comments : x.postId = id}}
  IN /\ posts' = {p \in posts : p.id # id}
     /\ comments' = CommentsWithout(gone)
     /\ likes' = {l \in likes : l.postId # id}
     /\ ratings' = {g \in ratings : g.postId # id}
     /\ UNCHANGED users

\* prisma.user.delete: onDelete: Cascade to the user's posts (and what hangs
\* on them), comments, likes and ratings
DeleteUserRow(id) ==
  LET gonePosts == {p.id : p \in {x \in posts : x.userId = id}}
      gone == {c.id : c \in {x \in comments :
                               x.userId = id \/ x.postId \in gonePosts}}
  IN /\ users' = {u \in users : u.id # id}
     /\ posts' = {p \in posts : p.id \notin gonePosts}
     /\ comments' = CommentsWithout(gone)
     /\ likes' = {l \in likes : l.userId # id /\ l.postId \notin gonePosts}
     /\ ratings' = {g \in ratings : g.userId # id /\ g.postId \notin gonePosts}

(***************************************************************************)
(* Resolver calls                                                          *)
(***************************************************************************)
Slots == 1..MaxSlots

\* a slot with no call in it
Idle ==
  [op |-> "none", pc |-> "idle", caller |-> None, role |-> Undefined,
   postId |-> None, commentId |-> None, parentId |-> None, value |-> 0,
   email |-> None, loaded |-> None, owner |-> None, result |-> None,
   err |-> NoError, reads |-> 0, writes |-> 0]

\* context.user of a call: the id and role of a stored user row, or null
NoUser == [id |-> None, role |-> Undefined]
Callers == {[id |-> u.id, role |-> u.role] : u \in users} \cup {NoUser}

\* a resolver call of context.user = user, standing at the await named pc
Call(op, user, postId, commentId, parentId, value, pc) ==
  [Idle EXCEPT !.op = op, !.pc = pc, !.caller = user.id, !.role = user.role,
               !.postId = postId, !.commentId = commentId,
               !.parentId = parentId, !.value = value]

\* the call throws e
Throw(q, e) == [q EXCEPT !.pc = "failed", !.err = e]

\* the call returns v
Return(q, v) == [q EXCEPT !.pc = "done", !.result = v]

\* a read / a write was issued to the persistence client
Read(q) == [q EXCEPT !.reads = @ + 1]
Write(q) == [q EXCEPT !.writes = @ + 1]

\* Every identity-requiring resolver starts with
\*   const user = AuthMiddleware.authenticate(context);
\* and hands user.id (and user.role) to the service; q is the call as the
\* service leaves it at its first await.
Enter(r, q) ==
  /\ reqs[r].pc = "idle"
  /\ started < budget
  /\ started' = started + 1
  /\ UNCHANGED budget
  /\ reqs' = [reqs EXCEPT ![r] =
       IF authenticate(q.caller) THEN q
       ELSE Throw([q EXCEPT !.pc = "authenticate"], NotAuthenticated)]

\* the response is sent and the slot is free again
Finish(r) ==
  /\ reqs[r].pc \in {"done", "failed"}
  /\ reqs' = [reqs EXCEPT ![r] = Idle]
  /\ UNCHANGED <<storeVars, started, budget, classifyVars, jwtVars>>

\* post ids a caller may name: the posts stored at the start or now, and
\* one id that never names a post
PostArgs ==
  PostIdsOf(InitPosts) \cup PostIdsOf(posts) \cup {FirstFreshId - 1}

\* comment ids a caller may name: the comments stored at the start or now,
\* and one id that never names a comment
CommentArgs ==
  CommentIdsOf(InitComments) \cup CommentIdsOf(comments) \cup {1}

(***************************************************************************)
(* LikeService: src/graphql/services/like.service.ts                       *)
(***************************************************************************)
\* resolver likePost: authenticate, then service.likePost(postId, user.id)
likePost(r) ==
  /\ \E user \in Callers, postId \in PostArgs :
       Enter(r, Call("likePost", user, postId, None, None, 0, "post.findUnique"))
  /\ UNCHANGED <<storeVars, classifyVars, jwtVars>>

\* likePost: const post = await prisma.post.findUnique(...); if (!post) throw
likePost_findPost(r) ==
  LET q == Read(reqs[r]) IN
  /\ reqs[r].op = "likePost" /\ reqs[r].pc = "post.findUnique"
  /\ reqs' = [reqs EXCEPT ![r] =
       IF ~Found(FindUnique(posts, q.postId))
         THEN Throw(q, GraphQLError("Post not found", NOT_FOUND))
         ELSE [q EXCEPT !.pc = "like.findFirst"]]
  /\ UNCHANGED <<storeVars, started, budget, classifyVars, jwtVars>>

\* likePost: const existingLike = await prisma.like.findFirst(...);
\* if (existingLike) return existingLike
likePost_findLike(r) ==
  LET q == Read(reqs[r])
      existingLike == FindFirst(likes, q.caller, q.postId) IN
  /\ reqs[r].op = "likePost" /\ reqs[r].pc = "like.findFirst"
  /\ reqs' = [reqs EXCEPT ![r] =
       IF Found(existingLike)
         THEN Return(q, existingLike.id)
         ELSE [q EXCEPT !.pc = "like.create"]]
  /\ UNCHANGED <<storeVars, started, budget, classifyVars, jwtVars>>

\* likePost: const like = await prisma.like.create({ data: { userId, postId } })
likePost_create(r) ==
  LET q == Write(reqs[r]) IN
  /\ reqs[r].op = "likePost" /\ reqs[r].pc = "like.create"
  /\ IF ~UserPostFkOk(q.caller, q.postId)
       THEN /\ reqs' = [reqs EXCEPT ![r] = Throw(q, P2003)]
            /\ UNCHANGED storeVars
       ELSE IF ~LikeUniqueOk(q.caller, q.postId)
         THEN /\ reqs' = [reqs EXCEPT ![r] = Throw(q, P2002)]
              /\ UNCHANGED storeVars
         ELSE /\ likes' = likes \cup
                   {[id |-> nextId, userId |-> q.caller, postId |-> q.postId]}
              /\ nextId' = nextId + 1
              /\ reqs' = [reqs EXCEPT ![r] = Return(q, nextId)]
              /\ UNCHANGED <<users, posts, comments, ratings>>
  /\ UNCHANGED <<started, budget, classifyVars, jwtVars>>

\* resolver unlikePost: authenticate, then service.unlikePost(postId, user.id)
unlikePost(r) ==
  /\ \E user \in Callers, postId \in PostArgs :
       Enter(r, Call("unlikePost", user, postId, None, None, 0, "like.findFirst"))
  /\ UNCHANGED <<storeVars, classifyVars, jwtVars>>

\* unlikePost: const like = await prisma.like.findFirst(...); if (!like) throw
unlikePost_findLike(r) ==
  LET q == Read(reqs[r])
      like == FindFirst(likes, q.caller, q.postId) IN
  /\ reqs[r].op = "unlikePost" /\ reqs[r].pc = "like.findFirst"
  /\ reqs' = [reqs EXCEPT ![r] =
       IF ~Found(like)
         THEN Throw(q, GraphQLError("Like not found", NOT_FOUND))
         ELSE [q EXCEPT !.pc = "like.delete", !.loaded = like.id]]
  /\ UNCHANGED <<storeVars, started, budget, classifyVars, jwtVars>>

\* a delete that removes every Like of the post
unlikePost_delete_byPost(r) ==
  LET q == Write(reqs[r]) IN
  /\ reqs[r].op = "unlikePost" /\ reqs[r].pc = "like.delete"
  /\ IF ~Found(FindUnique(likes, q.loaded))
       THEN /\ reqs' = [reqs EXCEPT ![r] = Throw(q, P2025_delete)]
            /\ UNCHANGED storeVars
       ELSE /\ likes' = {l \in likes : l.postId # q.postId}
            /\ reqs' = [reqs EXCEPT ![r] = Return(q, 1)]
            /\ UNCHANGED <<users, posts, comments, ratings, nextId>>
  /\ UNCHANGED <<started, budget, classifyVars, jwtVars>>

\* unlikePost: await prisma.like.delete({ where: { id: like.id } }); return true
unlikePost_delete(r) ==
  LET q == Write(reqs[r]) IN
  /\ reqs[r].op = "unlikePost" /\ reqs[r].pc = "like.delete"
  /\ IF ~Found(FindUnique(likes, q.loaded))
       THEN /\ reqs' = [reqs EXCEPT ![r] = Throw(q, P2025_delete)]
            /\ UNCHANGED storeVars
       ELSE /\ likes' = {l \in likes : l.id # q.loaded}
            /\ reqs' = [reqs EXCEPT ![r] = Return(q, 1)]
            /\ UNCHANGED <<users, posts, comments, ratings, nextId>>
  /\ UNCHANGED <<started, budget, classifyVars, jwtVars>>

(***************************************************************************)
(* PostService: src/graphql/services/post.service.ts                       *)
(***************************************************************************)
\* resolver createPost: authenticate, then service.createPost(input, user.id)
createPost(r) ==
  /\ \E user \in Callers :
       Enter(r, Call("createPost", user, None, None, None, 0, "post.create"))
  /\ UNCHANGED <<storeVars, classifyVars, jwtVars>>

\* createPost: const post = await prisma.post.create({ data: { userId, ... } })
createPost_create(r) ==
  LET q == Write(reqs[r]) IN
  /\ reqs[r].op = "createPost" /\ reqs[r].pc = "post.create"
  /\ IF q.caller \notin UserIdsOf(users)
       THEN /\ reqs' = [reqs EXCEPT ![r] = Throw(q, P2003)]
            /\ UNCHANGED storeVars
       ELSE /\ posts' = posts \cup
                 {[id |-> nextId, userId |-> q.caller, caption |-> 0]}
            /\ nextId' = nextId + 1
            /\ reqs' = [reqs EXCEPT ![r] = Return(q, nextId)]
            /\ UNCHANGED <<users, comments, likes, ratings>>
  /\ UNCHANGED <<started, budget, classifyVars, jwtVars>>

\* the load-and-authorize prefix shared by updatePost, deletePost,
\* updateComment and deleteComment:
\*   const row = await prisma.<table>.findUnique({ where: { id } });
\*   if (!row) throw NOT_FOUND;
\*   AuthMiddleware.authorize(userId, row.userId, userRole);
LoadAndAuthorize(q, row, missing, pc) ==
  IF ~Found(row) THEN Throw(q, GraphQLError(missing, NOT_FOUND))
  ELSE LET got == [q EXCEPT !.loaded = row.id, !.owner = row.userId] IN
       IF authorize(q.caller, row.userId, q.role)
         THEN [got EXCEPT !.pc = pc]
         ELSE Throw(got, NotAuthorized)

\* resolver updatePost: authenticate, then
\* service.updatePost(id, input, user.id, user.role)
updatePost(r) ==
  /\ \E user \in Callers, id \in PostArgs :
       Enter(r, Call("updatePost", user, id, None, None, 1, "post.findUnique"))
  /\ UNCHANGED <<storeVars, classifyVars, jwtVars>>

\* updatePost: load the post, authorize against post.userId
updatePost_find(r) ==
  LET q == Read(reqs[r]) IN
  /\ reqs[r].op = "updatePost" /\ reqs[r].pc = "post.findUnique"
  /\ reqs' = [reqs EXCEPT ![r] =
       LoadAndAuthorize(q, FindUnique(posts, q.postId), "Post not found",
                        "post.update")]
  /\ UNCHANGED <<storeVars, started, budget, classifyVars, jwtVars>>

\* updatePost: await prisma.post.update({ where: { id }, data: input })
updatePost_update(r) ==
  LET q == Write(reqs[r]) IN
  /\ reqs[r].op = "updatePost" /\ reqs[r].pc = "post.update"
  /\ IF ~Found(FindUnique(posts, q.postId))
       THEN /\ reqs' = [reqs EXCEPT ![r] = Throw(q, P2025_update)]
            /\ UNCHANGED storeVars
       ELSE /\ posts' = {IF p.id = q.postId THEN [p EXCEPT !.caption = q.value]
                         ELSE p : p \in posts}
            /\ reqs' = [reqs EXCEPT ![r] = Return(q, q.postId)]
            /\ UNCHANGED <<users, comments, likes, ratings, nextId>>
  /\ UNCHANGED <<started, budget, classifyVars, jwtVars>>

\* resolver deletePost: authenticate, then
\* service.deletePost(id, user.id, user.role)
deletePost(r) ==
  /\ \E user \in Callers, id \in PostArgs :
       Enter(r, Call("deletePost", user, id, None, None, 0, "post.findUnique"))
  /\ UNCHANGED <<storeVars, classifyVars, jwtVars>>

\* deletePost: load the post, authorize against post.userId
deletePost_find(r) ==
  LET q == Read(reqs[r]) IN
  /\ reqs[r].op = "deletePost" /\ reqs[r].pc = "post.findUnique"
  /\ reqs' = [reqs EXCEPT ![r] =
       LoadAndAuthorize(q, FindUnique(posts, q.postId), "Post not found",
                        "post.delete")]
  /\ UNCHANGED <<storeVars, started, budget, classifyVars, jwtVars>>

\* deletePost: await prisma.post.delete({ where: { id } }); return true
deletePost_delete(r) ==
  LET q == Write(reqs[r]) IN
  /\ reqs[r].op = "deletePost" /\ reqs[r].pc = "post.delete"
  /\ IF ~Found(FindUnique(posts, q.postId))
       THEN /\ reqs' = [reqs EXCEPT ![r] = Throw(q, P2025_delete)]
            /\ UNCHANGED storeVars
       ELSE /\ DeletePostRow(q.postId)
            /\ reqs' = [reqs EXCEPT ![r] = Return(q, 1)]
            /\ UNCHANGED nextId
  /\ UNCHANGED <<started, budget, classifyVars, jwtVars>>

(***************************************************************************)
(* UserService: src/unnamed/part_004                                       *)
(***************************************************************************)
\* the usernames an UpdateUserInput may ask for: those in use and a free one
UsernameArgs == 1..(Cardinality(InitUsers) + 1)

\* resolver updateUser: authenticate, then service.updateUser(user.id, input);
\* input sets bio (value = 0) or username (value = the new username)
updateUser(r) ==
  /\ \E user \in Callers, name \in {0} \cup UsernameArgs :
       Enter(r, Call("updateUser", user, None, None, None, name, "user.update"))
  /\ UNCHANGED <<storeVars, classifyVars, jwtVars>>

\* updateUser: await prisma.user.update({ where: { id: userId }, data: input });
\* User.username is @unique
updateUser_update(r) ==
  LET q == Write(reqs[r]) IN
  /\ reqs[r].op = "updateUser" /\ reqs[r].pc = "user.update"
  /\ IF q.caller \notin UserIdsOf(users)
       THEN /\ reqs' = [reqs EXCEPT ![r] = Throw(q, P2025_update)]
            /\ UNCHANGED storeVars
       ELSE IF \E u \in users : u.id # q.caller /\ u.username = q.value
         THEN /\ reqs' = [reqs EXCEPT ![r] = Throw(q, P2002)]
              /\ UNCHANGED storeVars
         ELSE /\ users' = {IF u.id # q.caller THEN u
                           ELSE IF q.value = 0 THEN [u EXCEPT !.bio = 1]
                           ELSE [u EXCEPT !.username = q.value] : u \in users}
              /\ reqs' = [reqs EXCEPT ![r] = Return(q, q.caller)]
              /\ UNCHANGED <<posts, comments, likes, ratings, nextId>>
  /\ UNCHANGED <<started, budget, classifyVars, jwtVars>>

\* resolver deleteUser: authenticate, then service.deleteUser(user.id)
deleteUser(r) ==
  /\ \E user \in Callers :
       Enter(r, Call("deleteUser", user, None, None, None, 0, "user.delete"))
  /\ UNCHANGED <<storeVars, classifyVars, jwtVars>>

\* deleteUser: await prisma.user.delete({ where: { id: userId } }); return true
deleteUser_delete(r) ==
  LET q == Write(reqs[r]) IN
  /\ reqs[r].op = "deleteUser" /\ reqs[r].pc = "user.delete"
  /\ IF q.caller \notin UserIdsOf(users)
       THEN /\ reqs' = [reqs EXCEPT ![r] = Throw(q, P2025_delete)]
            /\ UNCHANGED storeVars
       ELSE /\ DeleteUserRow(q.caller)
            /\ reqs' = [reqs EXCEPT ![r] = Return(q, 1)]
            /\ UNCHANGED nextId
  /\ UNCHANGED <<started, budget, classifyVars, jwtVars>>

(***************************************************************************)
(* RatingService: src/graphql/services/rating.service.ts                   *)
(***************************************************************************)
\* the values a RatePostInput may carry (value: Int!)
ValueArgs == {0, 1, 3, 5, 6}

\* ratePost without the range check
ratePost_validate_absent(q) == q

\* ratePost, up to its first await: the range check on value
ratePost_validate(q) ==
  IF q.value < 1 \/ q.value > 5
    THEN Throw(q, GraphQLError("Rating must be between 1 and 5", BAD_USER_INPUT))
    ELSE q

\* resolver ratePost: authenticate, then
\* service.ratePost(input.postId, user.id, input.value)
ratePost(r) ==
  /\ \E user \in Callers, postId \in PostArgs, value \in ValueArgs :
       Enter(r, ratePost_validate(
                  Call("ratePost", user, postId, None, None, value,
                       "post.findUnique")))
  /\ UNCHANGED <<storeVars, classifyVars, jwtVars>>

\* ratePost: const post = await prisma.post.findUnique(...); if (!post) throw
ratePost_findPost(r) ==
  LET q == Read(reqs[r]) IN
  /\ reqs[r].op = "ratePost" /\ reqs[r].pc = "post.findUnique"
  /\ reqs' = [reqs EXCEPT ![r] =
       IF ~Found(FindUnique(posts, q.postId))
         THEN Throw(q, GraphQLError("Post not found", NOT_FOUND))
         ELSE [q EXCEPT !.pc = "rating.findFirst"]]
  /\ UNCHANGED <<storeVars, started, budget, classifyVars, jwtVars>>

\* ratePost: const existingRating = await prisma.rating.findFirst(...)
ratePost_findRating(r) ==
  LET q == Read(reqs[r])
      existingRating == FindFirst(ratings, q.caller, q.postId) IN
  /\ reqs[r].op = "ratePost" /\ reqs[r].pc = "rating.findFirst"
  /\ reqs' = [reqs EXCEPT ![r] =
       IF Found(existingRating)
         THEN [q EXCEPT !.pc = "rating.update", !.loaded = existingRating.id]
         ELSE [q EXCEPT !.pc = "rating.create"]]
  /\ UNCHANGED <<storeVars, started, budget, classifyVars, jwtVars>>

\* an update that leaves the value of the row as it was
ratePost_update_keepsValue(r) ==
  LET q == Write(reqs[r]) IN
  /\ reqs[r].op = "ratePost" /\ reqs[r].pc = "rating.update"
  /\ IF ~Found(FindUnique(ratings, q.loaded))
       THEN reqs' = [reqs EXCEPT ![r] = Throw(q, P2025_update)]
       ELSE reqs' = [reqs EXCEPT ![r] = Return(q, q.loaded)]
  /\ UNCHANGED <<storeVars, started, budget, classifyVars, jwtVars>>

\* ratePost: await prisma.rating.update({ where: { id }, data: { value } })
ratePost_update(r) ==
  LET q == Write(reqs[r]) IN
  /\ reqs[r].op = "ratePost" /\ reqs[r].pc = "rating.update"
  /\ IF ~Found(FindUnique(ratings, q.loaded))
       THEN /\ reqs' = [reqs EXCEPT ![r] = Throw(q, P2025_update)]
            /\ UNCHANGED storeVars
       ELSE /\ ratings' = {IF g.id = q.loaded THEN [g EXCEPT !.value = q.value]
                           ELSE g : g \in ratings}
            /\ reqs' = [reqs EXCEPT ![r] = Return(q, q.loaded)]
            /\ UNCHANGED <<users, posts, comments, likes, nextId>>
  /\ UNCHANGED <<started, budget, classifyVars, jwtVars>>

\* ratePost: await prisma.rating.create({ data: { userId, postId, value } })
ratePost_create(r) ==
  LET q == Write(reqs[r]) IN
  /\ reqs[r].op = "ratePost" /\ reqs[r].pc = "rating.create"
  /\ IF ~UserPostFkOk(q.caller, q.postId)
       THEN /\ reqs' = [reqs EXCEPT ![r] = Throw(q, P2003)]
            /\ UNCHANGED storeVars
       ELSE IF ~RatingUniqueOk(q.caller, q.postId)
         THEN /\ reqs' = [reqs EXCEPT ![r] = Throw(q, P2002)]
              /\ UNCHANGED storeVars
         ELSE /\ ratings' = ratings \cup
                   {[id |-> nextId, userId |-> q.caller, postId |-> q.postId,
                     value |-> q.value]}
              /\ nextId' = nextId + 1
              /\ reqs' = [reqs EXCEPT ![r] = Return(q, nextId)]
              /\ UNCHANGED <<users, posts, comments, likes>>
  /\ UNCHANGED <<started, budget, classifyVars, jwtVars>>

\* the sum of the values of a set of Rating rows
RECURSIVE SumValues(_)
SumValues(rows) ==
  IF rows = {} THEN 0
  ELSE LET g == CHOOSE x \in rows : TRUE
       IN  g.value + SumValues(rows \ {g})

\* an aggregate with no where clause: the ratings of every post
getAverageRatingForPost_allPosts(postId) ==
  [sum |-> SumValues(ratings), count |-> Cardinality(ratings)]

\* PostService.getAverageRatingForPost: _avg.value of the ratings of the
\* post, as the fraction sum / count; count 0 stands for null (no ratings)
getAverageRatingForPost(postId) ==
  LET rows == {g \in ratings : g.postId = postId}
  IN  [sum |-> SumValues(rows), count |-> Cardinality(rows)]

(***************************************************************************)
(* CommentService: src/graphql/services/comment.service.ts                 *)
(***************************************************************************)
\* the empty string given as a value of the GraphQL type ID
EmptyId == -1

\* if (id): an id that is given and is not the empty string
Truthy(id) == id # None /\ id # EmptyId

\* resolver createComment: authenticate, then
\* service.createComment(input, user.id); input.parentId is optional
createComment(r) ==
  /\ \E user \in Callers, postId \in PostArgs,
        parentId \in {None, EmptyId} \cup CommentArgs :
       Enter(r, Call("createComment", user, postId, None, parentId, 0,
                     "post.findUnique"))
  /\ UNCHANGED <<storeVars, classifyVars, jwtVars>>

\* createComment: load the post; if (parentId) is false for no parentId and
\* for the empty string, and then the create comes next
createComment_findPost(r) ==
  LET q == Read(reqs[r]) IN
  /\ reqs[r].op = "createComment" /\ reqs[r].pc = "post.findUnique"
  /\ reqs' = [reqs EXCEPT ![r] =
       IF ~Found(FindUnique(posts, q.postId))
         THEN Throw(q, GraphQLError("Post not found", NOT_FOUND))
         ELSE IF Truthy(q.parentId)
           THEN [q EXCEPT !.pc = "comment.findUnique"]
           ELSE [q EXCEPT !.pc = "comment.create"]]
  /\ UNCHANGED <<storeVars, started, budget, classifyVars, jwtVars>>

\* createComment: if (parentId) load the parent and compare its postId
createComment_findParent(r) ==
  LET q == Read(reqs[r])
      parentComment == FindUnique(comments, q.parentId) IN
  /\ reqs[r].op = "createComment" /\ reqs[r].pc = "comment.findUnique"
  /\ reqs' = [reqs EXCEPT ![r] =
       IF ~Found(parentComment)
         THEN Throw(q, GraphQLError("Parent comment not found", NOT_FOUND))
         ELSE IF parentComment.postId # q.postId
           THEN Throw(q, GraphQLError(
                  "Parent comment does not belong to this post", BAD_USER_INPUT))
           ELSE [q EXCEPT !.pc = "comment.create", !.loaded = parentComment.id]]
  /\ UNCHANGED <<storeVars, started, budget, classifyVars, jwtVars>>

\* createComment: await prisma.comment.create(
\*   { data: { userId, postId, content, parentId } })
createComment_create(r) ==
  LET q == Write(reqs[r]) IN
  /\ reqs[r].op = "createComment" /\ reqs[r].pc = "comment.create"
  /\ IF ~(UserPostFkOk(q.caller, q.postId) /\ CommentParentFkOk(q.parentId))
       THEN /\ reqs' = [reqs EXCEPT ![r] = Throw(q, P2003)]
            /\ UNCHANGED storeVars
       ELSE /\ comments' = comments \cup
                 {[id |-> nextId, userId |-> q.caller, postId |-> q.postId,
                   content |-> 0, parentId |-> q.parentId]}
            /\ nextId' = nextId + 1
            /\ reqs' = [reqs EXCEPT ![r] = Return(q, nextId)]
            /\ UNCHANGED <<users, posts, likes, ratings>>
  /\ UNCHANGED <<started, budget, classifyVars, jwtVars>>

\* resolver updateComment: authenticate, then
\* service.updateComment(id, input, user.id, user.role);
\* UpdateCommentInput carries content only
updateComment(r) ==
  /\ \E user \in Callers, id \in CommentArgs :
       Enter(r, Call("updateComment", user, None, id, None, 1,
                     "comment.findUnique"))
  /\ UNCHANGED <<storeVars, classifyVars, jwtVars>>

\* updateComment: load the comment, authorize against comment.userId
updateComment_find(r) ==
  LET q == Read(reqs[r]) IN
  /\ reqs[r].op = "updateComment" /\ reqs[r].pc = "comment.findUnique"
  /\ reqs' = [reqs EXCEPT ![r] =
       LoadAndAuthorize(q, FindUnique(comments, q.commentId),
                        "Comment not found", "comment.update")]
  /\ UNCHANGED <<storeVars, started, budget, classifyVars, jwtVars>>

\* an update whose data also names the comment itself as its parent
updateComment_update_reparents(r) ==
  LET q == Write(reqs[r]) IN
  /\ reqs[r].op = "updateComment" /\ reqs[r].pc = "comment.update"
  /\ IF ~Found(FindUnique(comments, q.commentId))
       THEN /\ reqs' = [reqs EXCEPT ![r] = Throw(q, P2025_update)]
            /\ UNCHANGED storeVars
       ELSE /\ comments' = {IF c.id = q.commentId
                              THEN [c EXCEPT !.content = q.value,
                                             !.parentId = c.id]
                              ELSE c : c \in comments}
            /\ reqs' = [reqs EXCEPT ![r] = Return(q, q.commentId)]
            /\ UNCHANGED <<users, posts, likes, ratings, nextId>>
  /\ UNCHANGED <<started, budget, classifyVars, jwtVars>>

\* updateComment: await prisma.comment.update({ where: { id }, data: input })
updateComment_update(r) ==
  LET q == Write(reqs[r]) IN
  /\ reqs[r].op = "updateComment" /\ reqs[r].pc = "comment.update"
  /\ IF ~Found(FindUnique(comments, q.commentId))
       THEN /\ reqs' = [reqs EXCEPT ![r] = Throw(q, P2025_update)]
            /\ UNCHANGED storeVars
       ELSE /\ comments' = {IF c.id = q.commentId
                              THEN [c EXCEPT !.content = q.value]
                              ELSE c : c \in comments}
            /\ reqs' = [reqs EXCEPT ![r] = Return(q, q.commentId)]
            /\ UNCHANGED <<users, posts, likes, ratings, nextId>>
  /\ UNCHANGED <<started, budget, classifyVars, jwtVars>>

\* resolver deleteComment: authenticate, then
\* service.deleteComment(id, user.id, user.role)
deleteComment(r) ==
  /\ \E user \in Callers, id \in CommentArgs :
       Enter(r, Call("deleteComment", user, None, id, None, 0,
                     "comment.findUnique"))
  /\ UNCHANGED <<storeVars, classifyVars, jwtVars>>

\* deleteComment: load the comment, authorize against comment.userId
deleteComment_find(r) ==
  LET q == Read(reqs[r]) IN
  /\ reqs[r].op = "deleteComment" /\ reqs[r].pc = "comment.findUnique"
  /\ reqs' = [reqs EXCEPT ![r] =
       LoadAndAuthorize(q, FindUnique(comments, q.commentId),
                        "Comment not found", "comment.delete")]
  /\ UNCHANGED <<storeVars, started, budget, classifyVars, jwtVars>>

\* deleteComment: await prisma.comment.delete({ where: { id } }); return true
deleteComment_delete(r) ==
  LET q == Write(reqs[r]) IN
  /\ reqs[r].op = "deleteComment" /\ reqs[r].pc = "comment.delete"
  /\ IF ~Found(FindUnique(comments, q.commentId))
       THEN /\ reqs' = [reqs EXCEPT ![r] = Throw(q, P2025_delete)]
            /\ UNCHANGED storeVars
       ELSE /\ DeleteCommentRow(q.commentId)
            /\ reqs' = [reqs EXCEPT ![r] = Return(q, 1)]
            /\ UNCHANGED nextId
  /\ UNCHANGED <<started, budget, classifyVars, jwtVars>>

(***************************************************************************)
(* Classifier: ErrorHandler in src/middleware/error-handler.middleware.ts   *)
(***************************************************************************)
\* error instanceof ServiceError
IsServiceError(error) == error.cls = "ServiceError"

\* error instanceof Error
IsError(error) == error.cls \in {"ServiceError", "GraphQLError", "Error"}

\* error.message.includes(needle)
Includes(message, needle) == \E i \in 1..Len(message) : message[i] = needle

\* new GraphQLError(message, { extensions: { code, statusCode, details } })
External(message, code, statusCode, details) ==
  Thrown("GraphQLError", "GraphQLError", message, code, statusCode, details)

\* a fallback that hands the original message and details to the caller
Fallback_leaky(error) ==
  External(error.message, INTERNAL_SERVER_ERROR, 500, error.details)

\* handle, last branch: the fallback for unexpected errors
Fallback(error) ==
  External(<<"Internal server error">>, INTERNAL_SERVER_ERROR, 500, Undefined)

\* ErrorHandler.handle(error)
handle(error) ==
  IF IsServiceError(error)
    THEN External(error.message, error.code, error.statusCode, error.details)
  ELSE IF /\ IsError(error) /\ error.name = "PrismaClientKnownRequestError"
          /\ Includes(error.message, "Unique constraint failed")
    THEN External(<<"Resource already exists">>, CONFLICT, 409, Undefined)
  ELSE IF /\ IsError(error) /\ error.name = "PrismaClientKnownRequestError"
          /\ Includes(error.message, "Record to update not found")
    THEN External(<<"Resource not found">>, NOT_FOUND, 404, Undefined)
  ELSE IF IsError(error) /\ error.name = "ValidationError"
    THEN External(<<"Validation failed">>, BAD_USER_INPUT, 400, error.message[1])
  ELSE Fallback(error)

(***************************************************************************)
(* The failures that can be raised inside the system                       *)
(***************************************************************************)
\* thrown by AuthMiddleware (authenticate, authorize, isAdmin)
AuthFailures ==
  {NotAuthenticated, NotAuthorized,
   GraphQLError("Admin access required", UNAUTHORIZED)}

\* thrown by the services' integrity rules
IntegrityFailures ==
  {GraphQLError("Post not found", NOT_FOUND),
   GraphQLError("Like not found", NOT_FOUND),
   GraphQLError("Comment not found", NOT_FOUND),
   GraphQLError("Parent comment not found", NOT_FOUND),
   GraphQLError("Parent comment does not belong to this post", BAD_USER_INPUT),
   GraphQLError("Rating must be between 1 and 5", BAD_USER_INPUT),
   GraphQLError("User already exists with that username or email", BAD_USER_INPUT),
   GraphQLError("Invalid email or password", UNAUTHENTICATED)}

\* instances of the ServiceError classes of src/types/error.ts
ServiceFailures ==
  {NotFoundError("Post", Undefined), NotFoundError("Comment", "id 7"),
   ValidationError("caption too long", "caption"),
   AuthorizationError, AuthenticationError,
   ConflictError("username taken", Undefined), RateLimitError,
   InternalServerError}

\* failures of the persistence client
PersistenceFailures == {P2002, P2003, P2025_update, P2025_delete}

\* input-shape validation failures (an Error named ValidationError)
ValidationFailures ==
  {Thrown("Error", "ValidationError", <<"email must be an email">>, Undefined,
          None, Undefined),
   Thrown("Error", "ValidationError", <<"value must be an integer">>, Undefined,
          None, Undefined)}

\* unexpected runtime faults and thrown values that are no Error
RuntimeFaults ==
  {Thrown("Error", "TypeError",
          <<"Cannot read properties of null (reading 'id')">>, Undefined, None,
          Undefined),
   Thrown("Error", "Error", <<"Failed to generate authentication token">>,
          Undefined, None, Undefined),
   Thrown("Error", "PrismaClientInitializationError",
          <<"Can't reach database server at mysql:3306">>, Undefined, None,
          Undefined),
   Thrown("Object", Undefined, <<"connect ECONNREFUSED 10.0.0.5:3306">>,
          Undefined, None, "user=root")}

Failures ==
  AuthFailures \cup IntegrityFailures \cup ServiceFailures
    \cup PersistenceFailures \cup ValidationFailures \cup RuntimeFaults

(***************************************************************************)
(* Transport: src/index.ts (startServer) and src/tests/test-utils.ts       *)
(***************************************************************************)
\* the error as it is held on its way to the caller:
\* { message, extensions: { code, statusCode, details } }, with a note of
\* whether ErrorHandler.handle produced it
Wire(message, code, statusCode, details, classified) ==
  [message |-> message, code |-> code, statusCode |-> statusCode,
   details |-> details, classified |-> classified]

NoResponse == Wire(<<>>, Undefined, None, Undefined, FALSE)

\* What the server hands to formatError for an error thrown in a resolver:
\* a plain object with the error's message and its extensions, the code
\* defaulting to INTERNAL_SERVER_ERROR.  Only a GraphQLError has extensions;
\* a thrown value that is no Error is reported as an unexpected error value.
Formatted(error) ==
  IF error.cls = "GraphQLError"
    THEN Wire(error.message,
              IF error.code = Undefined THEN INTERNAL_SERVER_ERROR ELSE error.code,
              error.statusCode, error.details, FALSE)
  ELSE IF IsError(error)
    THEN Wire(error.message, INTERNAL_SERVER_ERROR, None, Undefined, FALSE)
  ELSE Wire(<<"Unexpected error value: ">> \o error.message,
            INTERNAL_SERVER_ERROR, None, Undefined, FALSE)

\* the formatted error as ErrorHandler.handle sees it: a plain object
AsObject(w) ==
  Thrown("Object", Undefined, w.message, w.code, w.statusCode, w.details)

\* formatError of startServer
formatError(formattedError, env) ==
  LET error == handle(AsObject(formattedError)) IN
  IF env = "production"
    THEN Wire(error.message,
              IF error.code = Undefined THEN INTERNAL_SERVER_ERROR ELSE error.code,
              None, Undefined, TRUE)
    ELSE Wire(error.message, error.code, error.statusCode, error.details, TRUE)

\* the values of NODE_ENV that config distinguishes
NodeEnvs == {"development", "production", "test"}

\* the servers the repository builds
Servers == {"startServer", "createTestServer"}

\* a failure is raised while a server of some configuration handles a call
Raised ==
  /\ failure \in Failures
  /\ server \in Servers
  /\ nodeEnv \in NodeEnvs
  /\ stage = "raised"
  /\ external = NoError
  /\ response = NoResponse

\* ErrorHandler.handle is applied to the failure
Classify ==
  /\ stage = "raised"
  /\ external' = handle(failure)
  /\ stage' = "classified"
  /\ UNCHANGED <<failure, server, nodeEnv, response>>
  /\ UNCHANGED <<storeVars, callVars, jwtVars>>

\* the server catches the failure thrown by the resolver and formats it
Catch ==
  /\ stage = "raised"
  /\ response' = Formatted(failure)
  /\ stage' = "formatted"
  /\ UNCHANGED <<failure, server, nodeEnv, external>>
  /\ UNCHANGED <<storeVars, callVars, jwtVars>>

\* startServer: the formatted error goes through formatError and out
SendFormatted ==
  /\ stage = "formatted" /\ server = "startServer"
  /\ response' = formatError(response, nodeEnv)
  /\ stage' = "sent"
  /\ UNCHANGED <<failure, server, nodeEnv, external>>
  /\ UNCHANGED <<storeVars, callVars, jwtVars>>

\* createTestServer: new ApolloServer({ schema }) has no formatError
SendUnformatted ==
  /\ stage = "formatted" /\ server = "createTestServer"
  /\ stage' = "sent"
  /\ UNCHANGED <<failure, server, nodeEnv, external, response>>
  /\ UNCHANGED <<storeVars, callVars, jwtVars>>

(***************************************************************************)
(* Credential codec: JwtUtils in src/utils (unnamed/part_000) and the      *)
(* JwtUtils of src/tests/test-utils.ts                                     *)
(***************************************************************************)
\* config.jwtSecret when JWT_SECRET is set
Secret == "JWT_SECRET"

\* a key that is not the server's
ForgedKey == "forged"

\* the two JwtUtils classes of the repository
Utils == "utils/jwt"
TestUtils == "tests/test-utils"

\* "1hr", the default of JWT_EXPIRES_IN, in units of the clock
Hour == 1

\* defaultOptions of each class; JWT_ISSUER, JWT_AUDIENCE and JWT_EXPIRES_IN
\* unset
defaultOptions(class) ==
  IF class = Utils
    THEN [issuer |-> "your-app-name", audience |-> "your-app-client",
          algorithms |-> {"HS256"}, expiresIn |-> Hour]
    ELSE [issuer |-> "social-media-api", audience |-> "social-media-app",
          algorithms |-> {"HS256"}, expiresIn |-> Hour]

\* a credential string: empty, not of the form a.b.c, or a JWT with the
\* algorithm of its header, the key its signature was made with (Undefined:
\* the signature part is empty) and the claims of its payload
Credential(form, alg, key, exp, nbf, iat, iss, aud, userId, username, role) ==
  [form |-> form, alg |-> alg, key |-> key, exp |-> exp, nbf |-> nbf,
   iat |-> iat, iss |-> iss, aud |-> aud, userId |-> userId,
   username |-> username, role |-> role]

NoCredential ==
  Credential("none", Undefined, Undefined, None, None, None, Undefined,
             Undefined, Undefined, Undefined, Undefined)

\* the username and role a payload may carry: none, or both
Profiles == {<<Undefined, Undefined>>, <<"alice", "USER">>}

Credentials ==
  {Credential(f, Undefined, Undefined, None, None, None, Undefined, Undefined,
              Undefined, Undefined, Undefined) : f \in {"empty", "malformed"}}
  \cup
  {Credential("jwt", alg, key, exp, nbf, None, iss, aud, userId, p[1], p[2]) :
     alg \in {"HS256", "HS512", "none"},
     key \in {Undefined, Secret, ForgedKey},
     exp \in {None} \cup (1..(MaxTime + 1)),
     nbf \in {None, MaxTime},
     iss \in {"your-app-name", "social-media-api", Undefined},
     aud \in {"your-app-client", "social-media-app", Undefined},
     userId \in {Undefined, "user-1"},
     p \in Profiles}

\* what a call of the codec gives: the payload returned or the error thrown
Outcome(status, name, message, payload, class) ==
  [status |-> status, name |-> name, message |-> message,
   payload |-> payload, class |-> class]

NoOutcome == Outcome("none", Undefined, Undefined, NoCredential, Undefined)

Returned(payload) == Outcome("returned", Undefined, Undefined, payload, Undefined)

Raise(name, message) == Outcome("thrown", name, message, NoCredential, Undefined)

JsonWebTokenError(message) == Raise("JsonWebTokenError", message)

\* an expiry check that lets every credential through
Expired_never(payload, clockTimestamp) == FALSE

\* jwt.verify: the exp claim against the clock
Expired(payload, clockTimestamp) ==
  payload.exp # None /\ clockTimestamp >= payload.exp

\* jwt.verify(token, secretOrPublicKey, options) at time clockTimestamp,
\* its checks in the order the library makes them
JwtVerify(jwtString, secretOrPublicKey, options, clockTimestamp) ==
  LET hasSignature == jwtString.key # Undefined IN
  IF jwtString.form = "empty"
    THEN JsonWebTokenError("jwt must be provided")
  ELSE IF jwtString.form = "malformed"
    THEN JsonWebTokenError("jwt malformed")
  ELSE IF ~hasSignature /\ secretOrPublicKey # Undefined
    THEN JsonWebTokenError("jwt signature is required")
  ELSE IF hasSignature /\ secretOrPublicKey = Undefined
    THEN JsonWebTokenError("secret or public key must be provided")
  ELSE IF jwtString.alg \notin options.algorithms
    THEN JsonWebTokenError("invalid algorithm")
  ELSE IF secretOrPublicKey = Undefined
    THEN Raise("TypeError",
               "Cannot read properties of undefined (reading 'type')")
  ELSE IF jwtString.key # secretOrPublicKey
    THEN JsonWebTokenError("invalid signature")
  ELSE IF jwtString.nbf # None /\ jwtString.nbf > clockTimestamp
    THEN Raise("NotBeforeError", "jwt not active")
  ELSE IF Expired(jwtString, clockTimestamp)
    THEN Raise("TokenExpiredError", "jwt expired")
  ELSE IF jwtString.aud # options.audience
    THEN JsonWebTokenError("jwt audience invalid. expected: "
                             \o options.audience)
  ELSE IF jwtString.iss # options.issuer
    THEN JsonWebTokenError("jwt issuer invalid. expected: "
                             \o options.issuer)
  ELSE Returned(jwtString)

\* error instanceof jwt.JsonWebTokenError
IsJsonWebTokenError(error) ==
  error.name \in {"JsonWebTokenError", "TokenExpiredError", "NotBeforeError"}

\* JwtUtils.verifyToken of src/utils
verifyToken(tok, secret, clock) ==
  LET tried == IF tok.form = "empty"
                 THEN Raise("Error", "No token provided")
                 ELSE JwtVerify(tok, secret, defaultOptions(Utils), clock)
  IN  IF tried.status = "returned" THEN tried
      ELSE IF tried.name = "TokenExpiredError"
        THEN Raise("Error", "Authentication token expired")
      ELSE IF IsJsonWebTokenError(tried)
        THEN Raise("Error", "Invalid authentication token")
      ELSE Raise("Error", "Authentication verification failed")

\* JwtUtils.verifyToken of src/tests/test-utils.ts
verifyToken_testUtils(tok, secret, clock) ==
  IF secret = Undefined THEN Raise("Error", "JWT_SECRET is not configured")
  ELSE LET decoded == JwtVerify(tok, secret, defaultOptions(TestUtils), clock)
       IN  IF decoded.status # "returned" THEN decoded
           ELSE IF decoded.payload.userId = Undefined
             THEN Raise("Error", "Token payload missing required fields")
           ELSE decoded

\* the arguments of generateToken: the payload (userId, username, role)
\* and the options; an option that is None / Undefined is not given
Issue(userId, username, role, expiresIn, issuer) ==
  [userId |-> userId, username |-> username, role |-> role,
   expiresIn |-> expiresIn, issuer |-> issuer]

NoIssue == Issue(Undefined, Undefined, Undefined, None, Undefined)

\* { ...this.defaultOptions, ...options }
Merged(class, options) ==
  [defaultOptions(class) EXCEPT
     !.expiresIn = IF options.expiresIn = None THEN @ ELSE options.expiresIn,
     !.issuer = IF options.issuer = Undefined THEN @ ELSE options.issuer]

\* a signing that keeps only the userId of the payload
JwtSign_subjectOnly(payload, secretOrPrivateKey, options, clockTimestamp) ==
  IF secretOrPrivateKey = Undefined
    THEN Raise("Error", "secretOrPrivateKey must have a value")
    ELSE Returned(Credential("jwt", "HS256", secretOrPrivateKey,
                             clockTimestamp + options.expiresIn, None,
                             clockTimestamp, options.issuer, options.audience,
                             payload.userId, Undefined, Undefined))

\* jwt.sign(payload, secretOrPrivateKey, options) at time clockTimestamp:
\* an HS256 token of the payload with iat, exp, iss and aud added
JwtSign(payload, secretOrPrivateKey, options, clockTimestamp) ==
  IF secretOrPrivateKey = Undefined
    THEN Raise("Error", "secretOrPrivateKey must have a value")
    ELSE Returned(Credential("jwt", "HS256", secretOrPrivateKey,
                             clockTimestamp + options.expiresIn, None,
                             clockTimestamp, options.issuer, options.audience,
                             payload.userId, payload.username, payload.role))

\* JwtUtils.generateToken of src/utils
generateToken(payload, options, secret, clock) ==
  LET signed == JwtSign(payload, secret, Merged(Utils, options), clock)
  IN  IF signed.status = "returned" THEN signed
      ELSE Raise("Error", "Failed to generate authentication token")

\* JwtUtils.generateToken of src/tests/test-utils.ts
generateToken_testUtils(payload, options, secret, clock) ==
  IF secret = Undefined THEN Raise("Error", "JWT_SECRET is not configured")
  ELSE JwtSign(payload, secret, Merged(TestUtils, options), clock)

\* JwtUtils.refreshToken of src/utils
refreshToken(tok, newExpiry, secret, clock) ==
  LET payload == verifyToken(tok, secret, clock)
      args == Issue(payload.payload.userId, payload.payload.username,
                    payload.payload.role,
                    IF newExpiry = None
                      THEN defaultOptions(Utils).expiresIn ELSE newExpiry,
                    Undefined)
      made == IF payload.status = "returned"
                THEN generateToken(args, args, secret, clock) ELSE payload
  IN  IF made.status = "returned" THEN made
      ELSE Raise("Error", "Failed to refresh token")

\* JwtUtils.refreshToken of src/tests/test-utils.ts
refreshToken_testUtils(tok, newExpiry, secret, clock) ==
  LET decoded == verifyToken_testUtils(tok, secret, clock)
      args == Issue(decoded.payload.userId, decoded.payload.username,
                    decoded.payload.role,
                    IF newExpiry = None
                      THEN defaultOptions(TestUtils).expiresIn ELSE newExpiry,
                    Undefined)
  IN  IF decoded.status = "returned"
        THEN generateToken_testUtils(args, args, secret, clock)
        ELSE decoded

\* the values of newExpiry and of options.expiresIn: not given, or a span
Spans == {None} \cup (1..MaxTime)

\* src/utils JwtUtils.refreshToken(token, newExpiry)
Refresh ==
  /\ minted.status = "none" /\ token.form # "none"
  /\ \E newExpiry \in Spans :
       minted' = [refreshToken(token, newExpiry, jwtSecret, now)
                    EXCEPT !.class = Utils]
  /\ UNCHANGED <<token, jwtSecret, now, verdict, issuing>>
  /\ UNCHANGED <<storeVars, callVars, classifyVars>>

\* tests/test-utils JwtUtils.refreshToken(token, newExpiry)
RefreshTestUtils ==
  /\ minted.status = "none" /\ token.form # "none"
  /\ \E newExpiry \in Spans :
       minted' = [refreshToken_testUtils(token, newExpiry, jwtSecret, now)
                    EXCEPT !.class = TestUtils]
  /\ UNCHANGED <<token, jwtSecret, now, verdict, issuing>>
  /\ UNCHANGED <<storeVars, callVars, classifyVars>>

\* the calls of generateToken: a payload with or without userId, with or
\* without username and role; options that give expiresIn or issuer or not
Issues ==
  {Issue(userId, p[1], p[2], expiresIn, issuer) :
     userId \in {Undefined, "user-1"}, p \in Profiles,
     expiresIn \in Spans, issuer \in {Undefined, "another-issuer"}}

\* generateToken is about to be called
Issuing ==
  /\ token = NoCredential
  /\ jwtSecret \in {Undefined, Secret}
  /\ now = 1
  /\ verdict = NoOutcome
  /\ issuing \in Issues
  /\ minted = NoOutcome

\* src/utils JwtUtils.generateToken(payload, options)
GenerateToken ==
  /\ minted.status = "none" /\ token.form = "none"
  /\ LET made == generateToken(issuing, issuing, jwtSecret, now)
     IN  /\ minted' = [made EXCEPT !.class = Utils]
         /\ token' = made.payload
  /\ UNCHANGED <<jwtSecret, now, verdict, issuing>>
  /\ UNCHANGED <<storeVars, callVars, classifyVars>>

\* tests/test-utils JwtUtils.generateToken(payload, options)
GenerateTokenTestUtils ==
  /\ minted.status = "none" /\ token.form = "none"
  /\ LET made == generateToken_testUtils(issuing, issuing, jwtSecret, now)
     IN  /\ minted' = [made EXCEPT !.class = TestUtils]
         /\ token' = made.payload
  /\ UNCHANGED <<jwtSecret, now, verdict, issuing>>
  /\ UNCHANGED <<storeVars, callVars, classifyVars>>

\* time passes between the issuing of a credential and its verification
Tick ==
  /\ minted.status = "returned" /\ verdict.status = "none"
  /\ now <= MaxTime
  /\ now' = now + 1
  /\ UNCHANGED <<token, jwtSecret, verdict, issuing, minted>>
  /\ UNCHANGED <<storeVars, callVars, classifyVars>>

\* a credential is presented to a server at some time
Presented ==
  /\ token \in Credentials
  /\ jwtSecret \in {Undefined, Secret}
  /\ now \in 1..MaxTime
  /\ verdict = NoOutcome
  /\ issuing = NoIssue
  /\ minted = NoOutcome

\* src/utils JwtUtils.verifyToken(token)
Verify ==
  /\ verdict.status = "none" /\ token.form # "none"
  /\ verdict' = [verifyToken(token, jwtSecret, now) EXCEPT !.class = Utils]
  /\ UNCHANGED <<token, jwtSecret, now, issuing, minted>>
  /\ UNCHANGED <<storeVars, callVars, classifyVars>>

\* tests/test-utils JwtUtils.verifyToken(token)
VerifyTestUtils ==
  /\ verdict.status = "none" /\ token.form # "none"
  /\ verdict' = [verifyToken_testUtils(token, jwtSecret, now)
                   EXCEPT !.class = TestUtils]
  /\ UNCHANGED <<token, jwtSecret, now, issuing, minted>>
  /\ UNCHANGED <<storeVars, callVars, classifyVars>>

(***************************************************************************)
(* Specifications of the store and the calls against it                    *)
(***************************************************************************)
\* the classifier pipeline and the credential codec at rest
ClassifyAtRest ==
  /\ failure = NoError /\ server = "none" /\ nodeEnv = "none"
  /\ stage = "none" /\ external = NoError /\ response = NoResponse
JwtAtRest ==
  /\ token = NoCredential /\ jwtSecret = Undefined /\ now = 0
  /\ verdict = NoOutcome /\ issuing = NoIssue /\ minted = NoOutcome

\* the store as seeded, no call in flight, calls calls to come
InitStore(calls) ==
  /\ users = InitUsers
  /\ posts = InitPosts
  /\ comments = InitComments
  /\ likes = {} /\ ratings = {}
  /\ nextId = FirstFreshId
  /\ reqs = [r \in Slots |-> Idle]
  /\ started = 0
  /\ budget = calls

Init == InitStore(MaxCalls) /\ ClassifyAtRest /\ JwtAtRest
InitAll == InitStore(MaxCallsAll) /\ ClassifyAtRest /\ JwtAtRest

\* likes against post and user deletion
NextLike ==
  \E r \in Slots :
    \/ likePost(r) \/ likePost_findPost(r) \/ likePost_findLike(r)
    \/ likePost_create(r)
    \/ unlikePost(r) \/ unlikePost_findLike(r) \/ unlikePost_delete(r)
    \/ deletePost(r) \/ deletePost_find(r) \/ deletePost_delete(r)
    \/ deleteUser(r) \/ deleteUser_delete(r)
    \/ Finish(r)

SpecLike == Init /\ [][NextLike]_vars

\* ratings
NextRating ==
  \E r \in Slots :
    \/ ratePost(r) \/ ratePost_findPost(r) \/ ratePost_findRating(r)
    \/ ratePost_update(r) \/ ratePost_create(r)
    \/ Finish(r)

SpecRating == Init /\ [][NextRating]_vars

\* the comment tree against post and user deletion
NextComment ==
  \E r \in Slots :
    \/ createComment(r) \/ createComment_findPost(r)
    \/ createComment_findParent(r) \/ createComment_create(r)
    \/ updateComment(r) \/ updateComment_find(r) \/ updateComment_update(r)
    \/ deleteComment(r) \/ deleteComment_find(r) \/ deleteComment_delete(r)
    \/ deletePost(r) \/ deletePost_find(r) \/ deletePost_delete(r)
    \/ deleteUser(r) \/ deleteUser_delete(r)
    \/ Finish(r)

SpecComment == Init /\ [][NextComment]_vars

\* every identity-requiring mutation
Next ==
  \E r \in Slots :
    \/ createPost(r) \/ createPost_create(r)
    \/ updatePost(r) \/ updatePost_find(r) \/ updatePost_update(r)
    \/ deletePost(r) \/ deletePost_find(r) \/ deletePost_delete(r)
    \/ createComment(r) \/ createComment_findPost(r)
    \/ createComment_findParent(r) \/ createComment_create(r)
    \/ updateComment(r) \/ updateComment_find(r) \/ updateComment_update(r)
    \/ deleteComment(r) \/ deleteComment_find(r) \/ deleteComment_delete(r)
    \/ likePost(r) \/ likePost_findPost(r) \/ likePost_findLike(r)
    \/ likePost_create(r)
    \/ unlikePost(r) \/ unlikePost_findLike(r) \/ unlikePost_delete(r)
    \/ ratePost(r) \/ ratePost_findPost(r) \/ ratePost_findRating(r)
    \/ ratePost_update(r) \/ ratePost_create(r)
    \/ updateUser(r) \/ updateUser_update(r)
    \/ deleteUser(r) \/ deleteUser_delete(r)
    \/ Finish(r)

Spec == InitAll /\ [][Next]_vars

\* the store at rest while a failure is raised
InitClassify ==
  /\ users = InitUsers /\ posts = InitPosts /\ comments = InitComments
  /\ likes = {} /\ ratings = {} /\ nextId = FirstFreshId
  /\ reqs = [r \in Slots |-> Idle] /\ started = 0 /\ budget = 0
  /\ Raised
  /\ token = NoCredential /\ jwtSecret = Undefined /\ now = 0
  /\ verdict = NoOutcome /\ issuing = NoIssue /\ minted = NoOutcome

\* a failure on its way through the classifier and out of the server
NextClassify == Classify \/ Catch \/ SendFormatted \/ SendUnformatted

SpecClassify == InitClassify /\ [][NextClassify]_vars


\* the store at rest while a credential is presented
InitJwt ==
  /\ users = InitUsers /\ posts = InitPosts /\ comments = InitComments
  /\ likes = {} /\ ratings = {} /\ nextId = FirstFreshId
  /\ reqs = [r \in Slots |-> Idle] /\ started = 0 /\ budget = 0
  /\ failure = NoError /\ server = "none" /\ nodeEnv = "none"
  /\ stage = "none" /\ external = NoError /\ response = NoResponse
  /\ Presented

\* a credential presented and verified
NextJwt == Verify \/ VerifyTestUtils \/ Refresh \/ RefreshTestUtils

SpecJwt == InitJwt /\ [][NextJwt]_vars

\* the store at rest while a credential is issued
InitIssue ==
  /\ users = InitUsers /\ posts = InitPosts /\ comments = InitComments
  /\ likes = {} /\ ratings = {} /\ nextId = FirstFreshId
  /\ reqs = [r \in Slots |-> Idle] /\ started = 0 /\ budget = 0
  /\ failure = NoError /\ server = "none" /\ nodeEnv = "none"
  /\ stage = "none" /\ external = NoError /\ response = NoResponse
  /\ Issuing

\* a credential issued and, some time later, verified
NextIssue ==
  GenerateToken \/ GenerateTokenTestUtils \/ Tick \/ Verify \/ VerifyTestUtils

SpecIssue == InitIssue /\ [][NextIssue]_vars

\* ids handed to authorize: the stored users' and one of no stored user
AuthorizeIds == UserIdsOf(InitUsers) \cup {FirstFreshId}

\* roles handed to authorize (role?: string): the two of enum Role, a string
\* that is neither, and no role
AuthorizeRoles == {"USER", "ADMIN", "admin", Undefined}

\* AuthMiddleware.authorize(userId, resourceUserId, role) about to be called
AuthorizeCalls ==
  {[Idle EXCEPT !.op = "authorize", !.pc = "authorize", !.caller = u,
                !.owner = v, !.role = role] :
     u \in AuthorizeIds, v \in AuthorizeIds, role \in AuthorizeRoles}

\* the call of slot r runs: it returns nothing or throws
Authorize(r) ==
  LET q == reqs[r] IN
  /\ q.op = "authorize" /\ q.pc = "authorize"
  /\ reqs' = [reqs EXCEPT ![r] =
       IF authorize(q.caller, q.owner, q.role) THEN Return(q, None)
       ELSE Throw(q, NotAuthorized)]
  /\ UNCHANGED <<storeVars, started, budget, classifyVars, jwtVars>>

\* the store as seeded and, in every slot, an authorize call about to run
InitAuthorize ==
  /\ users = InitUsers /\ posts = InitPosts /\ comments = InitComments
  /\ likes = {} /\ ratings = {} /\ nextId = FirstFreshId
  /\ reqs \in [Slots -> AuthorizeCalls] /\ started = 0 /\ budget = 0
  /\ failure = NoError /\ server = "none" /\ nodeEnv = "none"
  /\ stage = "none" /\ external = NoError /\ response = NoResponse
  /\ token = NoCredential /\ jwtSecret = Undefined /\ now = 0
  /\ verdict = NoOutcome /\ issuing = NoIssue /\ minted = NoOutcome

NextAuthorize == \E r \in Slots : Authorize(r)

SpecAuthorize == InitAuthorize /\ [][NextAuthorize]_vars

\* the failure isAdmin throws for a caller who is not an ADMIN
AdminRequired == GraphQLError("Admin access required", UNAUTHORIZED)

\* an isAdmin that asks for a caller only
isAdmin_anyRole(userId, role) ==
  IF ~authenticate(userId) THEN NotAuthenticated ELSE NoError

\* AuthMiddleware.isAdmin(context): what it throws, NoError when it returns
\* context.user
isAdmin(userId, role) ==
  IF ~authenticate(userId) THEN NotAuthenticated
  ELSE IF role # "ADMIN" THEN AdminRequired
  ELSE NoError

\* context.user of a call to the admin gate: null, or an id with a role
\* (role?: string)
Contexts ==
  {NoUser} \cup {[id |-> u, role |-> role] :
                   u \in AuthorizeIds, role \in AuthorizeRoles}

\* AuthMiddleware.isAdmin(context) or Query.users about to be called
AdminCalls ==
  {Call(op, user, None, None, None, 0, op) :
     op \in {"isAdmin", "users"}, user \in Contexts}

\* the isAdmin call of slot r runs: it returns context.user or throws
IsAdmin(r) ==
  LET q == reqs[r]
      e == isAdmin(q.caller, q.role) IN
  /\ q.op = "isAdmin" /\ q.pc = "isAdmin"
  /\ reqs' = [reqs EXCEPT ![r] =
       IF e = NoError THEN Return(q, q.caller) ELSE Throw(q, e)]
  /\ UNCHANGED <<storeVars, started, budget, classifyVars, jwtVars>>

\* resolver users: authenticate, then service.getAllUsers(user.role), which
\* throws unless requesterRole === "ADMIN"
users_getAllUsers(r) ==
  LET q == reqs[r] IN
  /\ q.op = "users" /\ q.pc = "users"
  /\ reqs' = [reqs EXCEPT ![r] =
       IF ~authenticate(q.caller) THEN Throw(q, NotAuthenticated)
       ELSE IF q.role # "ADMIN" THEN Throw(q, NotAuthorized)
       ELSE [q EXCEPT !.pc = "user.findMany"]]
  /\ UNCHANGED <<storeVars, started, budget, classifyVars, jwtVars>>

\* getAllUsers: return this.prisma.user.findMany(); the rows by their number
users_findMany(r) ==
  LET q == Read(reqs[r]) IN
  /\ reqs[r].op = "users" /\ reqs[r].pc = "user.findMany"
  /\ reqs' = [reqs EXCEPT ![r] = Return(q, Cardinality(users))]
  /\ UNCHANGED <<storeVars, started, budget, classifyVars, jwtVars>>

\* the store as seeded and, in every slot, a call to the admin gate
InitAdmin ==
  /\ users = InitUsers /\ posts = InitPosts /\ comments = InitComments
  /\ likes = {} /\ ratings = {} /\ nextId = FirstFreshId
  /\ reqs \in [Slots -> AdminCalls] /\ started = 0 /\ budget = 0
  /\ failure = NoError /\ server = "none" /\ nodeEnv = "none"
  /\ stage = "none" /\ external = NoError /\ response = NoResponse
  /\ token = NoCredential /\ jwtSecret = Undefined /\ now = 0
  /\ verdict = NoOutcome /\ issuing = NoIssue /\ minted = NoOutcome

NextAdmin ==
  \E r \in Slots : IsAdmin(r) \/ users_getAllUsers(r) \/ users_findMany(r)

SpecAdmin == InitAdmin /\ [][NextAdmin]_vars

\* the error a caller of server srv receives for a failure e thrown in a
\* resolver: startServer formats it and applies formatError, createTestServer
\* formats it only
Answer(e, srv, env) ==
  IF srv = "startServer" THEN formatError(Formatted(e), env) ELSE Formatted(e)

\* likePost and ratePost calls running concurrently
NextRace ==
  \E r \in Slots :
    \/ likePost(r) \/ likePost_findPost(r) \/ likePost_findLike(r)
    \/ likePost_create(r)
    \/ ratePost(r) \/ ratePost_findPost(r) \/ ratePost_findRating(r)
    \/ ratePost_update(r) \/ ratePost_create(r)
    \/ Finish(r)

SpecRace == Init /\ [][NextRace]_vars

\* the failure JwtUtils.generateToken of src/utils throws
TokenFailure ==
  Thrown("Error", "Error", <<"Failed to generate authentication token">>,
         Undefined, None, Undefined)

\* the emails a RegisterInput may give: those in use and a free one
EmailArgs == 1..(Cardinality(InitUsers) + 1)

\* resolver register: service.registerUser(input), no authentication; the
\* input asks for a username in use or a free one, and gives an email in use
\* or a free one
registerUser(r) ==
  /\ reqs[r].pc = "idle"
  /\ started < budget
  /\ started' = started + 1
  /\ \E name \in UsernameArgs, mail \in EmailArgs :
       reqs' = [reqs EXCEPT ![r] =
         [Call("registerUser", NoUser, None, None, None, name,
               "user.findFirst") EXCEPT !.email = mail]]
  /\ UNCHANGED <<budget, storeVars, classifyVars, jwtVars>>

\* registerUser: const existingUser = await prisma.user.findFirst({ where:
\* { OR: [{ username }, { email }] } }); if (existingUser) throw; then the
\* password is hashed
registerUser_findUser(r) ==
  LET q == Read(reqs[r]) IN
  /\ reqs[r].op = "registerUser" /\ reqs[r].pc = "user.findFirst"
  /\ reqs' = [reqs EXCEPT ![r] =
       IF \E u \in users : u.username = q.value \/ u.email = q.email
         THEN Throw(q, GraphQLError(
                "User already exists with that username or email",
                BAD_USER_INPUT))
         ELSE [q EXCEPT !.pc = "user.create"]]
  /\ UNCHANGED <<storeVars, started, budget, classifyVars, jwtVars>>

\* registerUser: const newUser = await prisma.user.create({ data });
\* User.username and User.email are @unique;
\* const token = JwtUtils.generateToken({ userId: newUser.id, ... });
\* return { token, user: newUser }
registerUser_create(r) ==
  LET q == Write(reqs[r])
      token_ == generateToken(Issue(nextId, q.value, "USER", None, Undefined),
                              NoIssue, jwtSecret, now) IN
  /\ reqs[r].op = "registerUser" /\ reqs[r].pc = "user.create"
  /\ IF \E u \in users : u.username = q.value \/ u.email = q.email
       THEN /\ reqs' = [reqs EXCEPT ![r] = Throw(q, P2002)]
            /\ UNCHANGED storeVars
       ELSE /\ users' = users \cup
                 {[id |-> nextId, role |-> "USER", username |-> q.value,
                   email |-> q.email, bio |-> 0]}
            /\ nextId' = nextId + 1
            /\ reqs' = [reqs EXCEPT ![r] =
                 IF token_.status = "returned" THEN Return(q, nextId)
                 ELSE Throw(q, TokenFailure)]
            /\ UNCHANGED <<posts, comments, likes, ratings>>
  /\ UNCHANGED <<started, budget, classifyVars, jwtVars>>

\* the store as seeded, no call in flight, JWT_SECRET set or not
InitRegister ==
  /\ users = InitUsers /\ posts = InitPosts /\ comments = InitComments
  /\ likes = {} /\ ratings = {} /\ nextId = FirstFreshId
  /\ reqs = [r \in Slots |-> Idle] /\ started = 0 /\ budget = MaxCallsAll
  /\ failure = NoError /\ server = "none" /\ nodeEnv = "none"
  /\ stage = "none" /\ external = NoError /\ response = NoResponse
  /\ token = NoCredential /\ jwtSecret \in {Undefined, Secret} /\ now = 0
  /\ verdict = NoOutcome /\ issuing = NoIssue /\ minted = NoOutcome

\* every mutation, registration included
NextRegister ==
  \E r \in Slots :
    \/ registerUser(r) \/ registerUser_findUser(r) \/ registerUser_create(r)
    \/ createPost(r) \/ createPost_create(r)
    \/ updatePost(r) \/ updatePost_find(r) \/ updatePost_update(r)
    \/ deletePost(r) \/ deletePost_find(r) \/ deletePost_delete(r)
    \/ createComment(r) \/ createComment_findPost(r)
    \/ createComment_findParent(r) \/ createComment_create(r)
    \/ updateComment(r) \/ updateComment_find(r) \/ updateComment_update(r)
    \/ deleteComment(r) \/ deleteComment_find(r) \/ deleteComment_delete(r)
    \/ likePost(r) \/ likePost_findPost(r) \/ likePost_findLike(r)
    \/ likePost_create(r)
    \/ unlikePost(r) \/ unlikePost_findLike(r) \/ unlikePost_delete(r)
    \/ ratePost(r) \/ ratePost_findPost(r) \/ ratePost_findRating(r)
    \/ ratePost_update(r) \/ ratePost_create(r)
    \/ updateUser(r) \/ updateUser_update(r)
    \/ deleteUser(r) \/ deleteUser_delete(r)
    \/ Finish(r)

SpecRegister == InitRegister /\ [][NextRegister]_vars

(***************************************************************************)
(* Test lifecycle: src/tests/test-utils.ts and the hooks of the resolver   *)
(* tests                                                                   *)
(***************************************************************************)
\* a lifecycle hook starts: it runs for no user and passes no authentication
Hook(r, op, pc) ==
  /\ reqs[r].pc = "idle"
  /\ started < budget
  /\ started' = started + 1
  /\ reqs' = [reqs EXCEPT ![r] = Call(op, NoUser, None, None, None, 0, pc)]
  /\ UNCHANGED budget

\* a deleteMany was awaited: the call goes on to its next await
Emptied(r, op, pc, next) ==
  /\ reqs[r].op = op /\ reqs[r].pc = pc
  /\ reqs' = [reqs EXCEPT ![r] = [Write(reqs[r]) EXCEPT !.pc = next]]
  /\ UNCHANGED <<nextId, started, budget, classifyVars, jwtVars>>

\* cleanupDatabase(), called by the beforeAll and afterEach hooks
cleanupDatabase(r) ==
  /\ Hook(r, "cleanupDatabase", "rating.deleteMany")
  /\ UNCHANGED <<storeVars, classifyVars, jwtVars>>

\* cleanupDatabase: await testPrisma.rating.deleteMany();
cleanupDatabase_ratings(r) ==
  /\ Emptied(r, "cleanupDatabase", "rating.deleteMany", "like.deleteMany")
  /\ ratings' = {}
  /\ UNCHANGED <<users, posts, comments, likes>>

\* cleanupDatabase: await testPrisma.like.deleteMany();
cleanupDatabase_likes(r) ==
  /\ Emptied(r, "cleanupDatabase", "like.deleteMany", "comment.deleteMany")
  /\ likes' = {}
  /\ UNCHANGED <<users, posts, comments, ratings>>

\* cleanupDatabase: await testPrisma.comment.deleteMany();
cleanupDatabase_comments(r) ==
  /\ Emptied(r, "cleanupDatabase", "comment.deleteMany", "post.deleteMany")
  /\ comments' = {}
  /\ UNCHANGED <<users, posts, likes, ratings>>

\* cleanupDatabase: await testPrisma.post.deleteMany(); onDelete: Cascade to
\* the comments, likes and ratings of every post
cleanupDatabase_posts(r) ==
  /\ Emptied(r, "cleanupDatabase", "post.deleteMany", "user.deleteMany")
  /\ posts' = {} /\ comments' = {} /\ likes' = {} /\ ratings' = {}
  /\ UNCHANGED users

\* cleanupDatabase: await testPrisma.user.deleteMany(); onDelete: Cascade to
\* the posts of every user and what hangs on them; the promise resolves
cleanupDatabase_users(r) ==
  /\ reqs[r].op = "cleanupDatabase" /\ reqs[r].pc = "user.deleteMany"
  /\ reqs' = [reqs EXCEPT ![r] = Return(Write(reqs[r]), None)]
  /\ users' = {} /\ posts' = {} /\ comments' = {} /\ likes' = {}
  /\ ratings' = {}
  /\ UNCHANGED <<nextId, started, budget, classifyVars, jwtVars>>

\* the users the beforeAll of the post resolver tests creates: "testuser"
\* with the default role and "admin" with role ADMIN
TestUser(id) ==
  [id |-> id, role |-> "USER", username |-> 1, email |-> 1, bio |-> 0]
AdminUser(id) ==
  [id |-> id, role |-> "ADMIN", username |-> 2, email |-> 2, bio |-> 0]

\* prisma.user.create({ data }): User.username and User.email are @unique;
\* the call goes on to its next await, remembering in owner the id of the
\* first user it created
CreateFixtureUser(r, pc, row, next) ==
  LET q == Write(reqs[r]) IN
  /\ reqs[r].pc = pc
  /\ IF \E u \in users : u.username = row.username \/ u.email = row.email
       THEN /\ reqs' = [reqs EXCEPT ![r] = Throw(q, P2002)]
            /\ UNCHANGED storeVars
       ELSE /\ users' = users \cup {row}
            /\ nextId' = nextId + 1
            /\ reqs' = [reqs EXCEPT ![r] =
                 [q EXCEPT !.pc = next,
                           !.owner = IF @ = None THEN row.id ELSE @]]
            /\ UNCHANGED <<posts, comments, likes, ratings>>
  /\ UNCHANGED <<started, budget, classifyVars, jwtVars>>

\* the beforeAll hook of the post resolver tests
beforeAll(r) ==
  /\ Hook(r, "beforeAll", "$transaction")
  /\ UNCHANGED <<storeVars, classifyVars, jwtVars>>

\* beforeAll: await prisma.$transaction([rating.deleteMany(),
\* like.deleteMany(), comment.deleteMany(), post.deleteMany(),
\* user.deleteMany()]): the five deletions are one transaction
beforeAll_transaction(r) ==
  /\ Emptied(r, "beforeAll", "$transaction", "user.create")
  /\ users' = {} /\ posts' = {} /\ comments' = {} /\ likes' = {}
  /\ ratings' = {}

\* beforeAll: testUser = await prisma.user.create({ data });
beforeAll_createUser(r) ==
  /\ reqs[r].op = "beforeAll"
  /\ CreateFixtureUser(r, "user.create", TestUser(nextId), "admin.create")

\* beforeAll: adminUser = await prisma.user.create({ data });
beforeAll_createAdmin(r) ==
  /\ reqs[r].op = "beforeAll"
  /\ CreateFixtureUser(r, "admin.create", AdminUser(nextId), "post.create")

\* beforeAll: testPost = await prisma.post.create({ data: { userId:
\* testUser.id, ... } });
beforeAll_createPost(r) ==
  LET q == Write(reqs[r]) IN
  /\ reqs[r].op = "beforeAll" /\ reqs[r].pc = "post.create"
  /\ IF q.owner \notin UserIdsOf(users)
       THEN /\ reqs' = [reqs EXCEPT ![r] = Throw(q, P2003)]
            /\ UNCHANGED storeVars
       ELSE /\ posts' = posts \cup
                 {[id |-> nextId, userId |-> q.owner, caption |-> 0]}
            /\ nextId' = nextId + 1
            /\ reqs' = [reqs EXCEPT ![r] = Return(q, nextId)]
            /\ UNCHANGED <<users, comments, likes, ratings>>
  /\ UNCHANGED <<started, budget, classifyVars, jwtVars>>

\* the hooks against likes and ratings
NextCleanup ==
  \E r \in Slots :
    \/ cleanupDatabase(r) \/ cleanupDatabase_ratings(r)
    \/ cleanupDatabase_likes(r) \/ cleanupDatabase_comments(r)
    \/ cleanupDatabase_posts(r) \/ cleanupDatabase_users(r)
    \/ beforeAll(r) \/ beforeAll_transaction(r) \/ beforeAll_createUser(r)
    \/ beforeAll_createAdmin(r) \/ beforeAll_createPost(r)
    \/ likePost(r) \/ likePost_findPost(r) \/ likePost_findLike(r)
    \/ likePost_create(r)
    \/ ratePost(r) \/ ratePost_findPost(r) \/ ratePost_findRating(r)
    \/ ratePost_update(r) \/ ratePost_create(r)
    \/ Finish(r)

SpecCleanup == Init /\ [][NextCleanup]_vars

(***************************************************************************)
(* Request context: startStandaloneServer({ context }) in src/index.ts     *)
(***************************************************************************)
\* the user id a subject claim names: those of the two stored users, and
\* for any other subject an id of no user
IdOf(subject) ==
  CASE subject = "user-1" -> 1
    [] subject = "user-2" -> 2
    [] OTHER -> Cardinality(InitUsers) + 1

\* the credentials a request may carry after "Bearer ": the empty string, a
\* string that is no JWT, and HS256 tokens of the server's or a forged key,
\* with or without expiry, for the server's or another issuer, with no
\* subject or the subject of a stored or an unknown user
ContextCredentials ==
  {Credential(f, Undefined, Undefined, None, None, None, Undefined, Undefined,
              Undefined, Undefined, Undefined) : f \in {"empty", "malformed"}}
  \cup
  {Credential("jwt", "HS256", key, exp, None, None, iss, "your-app-client",
              userId, Undefined, Undefined) :
     key \in {Secret, ForgedKey},
     exp \in {None, 1, MaxTime},
     iss \in {"your-app-name", "social-media-api"},
     userId \in {Undefined, "user-1", "user-2", "user-3"}}

\* a request arrives, with an Authorization header carrying the credential
\* (value 1) or without one (value 0)
request(r) ==
  /\ reqs[r].pc = "idle"
  /\ started < budget
  /\ started' = started + 1
  /\ \E sent \in {0, 1} :
       reqs' = [reqs EXCEPT ![r] =
         Call("request", NoUser, None, None, None, sent, "context")]
  /\ UNCHANGED <<budget, storeVars, classifyVars, jwtVars>>

\* context: token = header?.split(" ")[1] || ""; if (token) try
\* { decoded = JwtUtils.verifyToken(token); if (!decoded.userId) throw ... }
\* catch { warn }: up to the await of prisma.user.findUnique
context_verify(r) ==
  LET q == reqs[r]
      decoded == verifyToken(token, jwtSecret, now) IN
  /\ q.op = "request" /\ q.pc = "context"
  /\ reqs' = [reqs EXCEPT ![r] =
       IF q.value = 0 \/ token.form = "empty" THEN [q EXCEPT !.pc = "resolver"]
       ELSE IF decoded.status # "returned" THEN [q EXCEPT !.pc = "resolver"]
       ELSE IF decoded.payload.userId = Undefined
         THEN [q EXCEPT !.pc = "resolver"]
       ELSE [q EXCEPT !.pc = "user.findUnique"]]
  /\ UNCHANGED <<storeVars, started, budget, classifyVars, jwtVars>>

\* a context that takes the caller from the credential without a lookup
context_findUser_trusting(r) ==
  LET q == Read(reqs[r])
      decoded == verifyToken(token, jwtSecret, now) IN
  /\ reqs[r].op = "request" /\ reqs[r].pc = "user.findUnique"
  /\ reqs' = [reqs EXCEPT ![r] =
       [q EXCEPT !.caller = IdOf(decoded.payload.userId), !.role = "USER",
                 !.pc = "resolver"]]
  /\ UNCHANGED <<storeVars, started, budget, classifyVars, jwtVars>>

\* context: user = await prisma.user.findUnique({ where: { id:
\* decoded.userId }, select }); return { prisma, user, requestId }
context_findUser(r) ==
  LET q == Read(reqs[r])
      decoded == verifyToken(token, jwtSecret, now)
      user == FindUnique(users, IdOf(decoded.payload.userId)) IN
  /\ reqs[r].op = "request" /\ reqs[r].pc = "user.findUnique"
  /\ reqs' = [reqs EXCEPT ![r] =
       IF Found(user)
         THEN [q EXCEPT !.caller = user.id, !.role = user.role,
                        !.pc = "resolver"]
         ELSE [q EXCEPT !.pc = "resolver"]]
  /\ UNCHANGED <<storeVars, started, budget, classifyVars, jwtVars>>

\* the resolver of an identity-requiring mutation starts with the context
\* built: Mutation.createPost or Mutation.deleteUser
resolve(r) ==
  LET q == reqs[r] IN
  /\ q.op = "request" /\ q.pc = "resolver"
  /\ \E op \in {"createPost", "deleteUser"} :
       reqs' = [reqs EXCEPT ![r] =
         IF authenticate(q.caller)
           THEN [q EXCEPT !.op = op,
                          !.pc = IF op = "createPost" THEN "post.create"
                                 ELSE "user.delete"]
           ELSE Throw([q EXCEPT !.op = op, !.pc = "authenticate"],
                      NotAuthenticated)]
  /\ UNCHANGED <<storeVars, started, budget, classifyVars, jwtVars>>

\* the store as seeded, no request in flight, a credential in use
InitContext ==
  /\ users = InitUsers /\ posts = InitPosts /\ comments = InitComments
  /\ likes = {} /\ ratings = {} /\ nextId = FirstFreshId
  /\ reqs = [r \in Slots |-> Idle] /\ started = 0 /\ budget = MaxCalls
  /\ failure = NoError /\ server = "none" /\ nodeEnv = "none"
  /\ stage = "none" /\ external = NoError /\ response = NoResponse
  /\ token \in ContextCredentials /\ jwtSecret \in {Undefined, Secret}
  /\ now = 1
  /\ verdict = NoOutcome /\ issuing = NoIssue /\ minted = NoOutcome

\* requests whose context is built from the credential before the resolver
\* of createPost or deleteUser runs
NextContext ==
  \E r \in Slots :
    \/ request(r) \/ context_verify(r) \/ context_findUser(r) \/ resolve(r)
    \/ createPost_create(r) \/ deleteUser_delete(r)
    \/ Finish(r)

SpecContext == InitContext /\ [][NextContext]_vars

\* likePost and unlikePost calls running concurrently
NextLikeRace ==
  \E r \in Slots :
    \/ likePost(r) \/ likePost_findPost(r) \/ likePost_findLike(r)
    \/ likePost_create(r)
    \/ unlikePost(r) \/ unlikePost_findLike(r) \/ unlikePost_delete(r)
    \/ Finish(r)

SpecLikeRace == Init /\ [][NextLikeRace]_vars

\* Calls made one after the other: the call of slot r begins when the calls
\* of the slots below it have returned or thrown and no later call has begun
Quiet(r) ==
  /\ \A s \in Slots : s < r => reqs[s].pc \in {"done", "failed"}
  /\ \A s \in Slots : s >= r => reqs[s].pc = "idle"

\* successive likePost and unlikePost calls
NextSeqLike ==
  \E r \in Slots :
    \/ Quiet(r) /\ likePost(r)
    \/ Quiet(r) /\ unlikePost(r)
    \/ likePost_findPost(r) \/ likePost_findLike(r) \/ likePost_create(r)
    \/ unlikePost_findLike(r) \/ unlikePost_delete(r)

SpecSeqLike == Init /\ [][NextSeqLike]_vars

\* no call is in progress and every slot is free
AllIdle == \A s \in Slots : reqs[s].pc = "idle"

\* likePost and unlikePost calls made one at a time, each answered before
\* the next begins
NextOneLike ==
  \E r \in Slots :
    \/ AllIdle /\ likePost(r)
    \/ AllIdle /\ unlikePost(r)
    \/ likePost_findPost(r) \/ likePost_findLike(r) \/ likePost_create(r)
    \/ unlikePost_findLike(r) \/ unlikePost_delete(r)
    \/ Finish(r)

SpecOneLike == Init /\ [][NextOneLike]_vars

\* successive ratePost calls
NextSeqRating ==
  \E r \in Slots :
    \/ Quiet(r) /\ ratePost(r)
    \/ ratePost_findPost(r) \/ ratePost_findRating(r)
    \/ ratePost_update(r) \/ ratePost_create(r)

SpecSeqRating == Init /\ [][NextSeqRating]_vars

\* successive createComment, updateComment and deleteComment calls
NextSeqComment ==
  \E r \in Slots :
    \/ Quiet(r) /\ createComment(r)
    \/ Quiet(r) /\ updateComment(r)
    \/ Quiet(r) /\ deleteComment(r)
    \/ createComment_findPost(r) \/ createComment_findParent(r)
    \/ createComment_create(r)
    \/ updateComment_find(r) \/ updateComment_update(r)
    \/ deleteComment_find(r) \/ deleteComment_delete(r)

SpecSeqComment == Init /\ [][NextSeqComment]_vars

(***************************************************************************)
(* Properties of the store and the calls against it                        *)
(***************************************************************************)
\* a likePost / ratePost call that lost the race for its (user, post): its
\* lookup found no row, and its create met the row the other call had stored
LostRace(q, op, winner) ==
  /\ q.op = op /\ winner.op = op
  /\ q.caller = winner.caller /\ q.postId = winner.postId
  /\ winner.pc = "done" /\ winner.writes = 1 /\ winner.loaded = None
  /\ q.pc = "failed" /\ q.err = P2002 /\ q.reads = 2 /\ q.writes = 1

\* C1: in every reachable state, whatever the interleaving of likePost,
\* unlikePost, deletePost and deleteUser calls, the store holds at most one
\* Like per (user id, post id).
C1_OneLikePerUserPost ==
  \A a, b \in likes :
    (a.userId = b.userId /\ a.postId = b.postId) => a.id = b.id

\* C1 witness: two likePost calls for the same (user, post) both looked up
\* the Like before either created it; one stored it, the other was refused.
C1_Witness ==
  /\ \E r, w \in Slots : r # w /\ LostRace(reqs[r], "likePost", reqs[w])
  /\ Cardinality(likes) = 1

\* C2: in every reachable state, whatever the interleaving of ratePost
\* calls, the store holds at most one Rating per (user id, post id).
C2_OneRatingPerUserPost ==
  \A a, b \in ratings :
    (a.userId = b.userId /\ a.postId = b.postId) => a.id = b.id

\* C2 witness: two ratePost calls for the same (user, post) both looked up
\* the Rating before either wrote; one stored it, the other was refused.
C2_Witness ==
  /\ \E r, w \in Slots : r # w /\ LostRace(reqs[r], "ratePost", reqs[w])
  /\ Cardinality(ratings) = 1

\* the operations that load a resource and authorize against its owner
OwnerGuardedOps == {"updatePost", "deletePost", "updateComment", "deleteComment"}

\* their mutating persistence calls
MutatingPcs == {"post.update", "post.delete", "comment.update", "comment.delete"}

\* the id the call names
Target(q) == IF q.op \in {"updatePost", "deletePost"} THEN q.postId ELSE q.commentId

\* C3 (state part): a call of updatePost, deletePost, updateComment or
\* deleteComment stands at, or has issued, its mutating persistence call only
\* if it loaded the resource and is its owner or an ADMIN; a USER who is not
\* the owner of the loaded resource has failed Unauthorized without a write;
\* an ADMIN who loaded the resource goes on to the mutating call.
C3_Inv ==
  \A r \in Slots :
    LET q == reqs[r] IN
    q.op \in OwnerGuardedOps =>
      /\ (q.pc \in MutatingPcs \/ q.writes > 0) =>
           /\ q.reads = 1 /\ q.loaded = Target(q)
           /\ (q.caller = q.owner \/ q.role = "ADMIN")
      /\ (q.loaded # None /\ q.role = "USER" /\ q.caller # q.owner) =>
           /\ q.pc = "failed" /\ q.err.code = UNAUTHORIZED /\ q.writes = 0
      /\ (q.loaded # None /\ q.role = "ADMIN") =>
           \/ q.pc \in MutatingPcs
           \/ q.writes = 1 /\ q.pc = "done"
           \/ q.writes = 1 /\ q.pc = "failed"
                /\ q.err \in {P2025_update, P2025_delete}

\* C3 (step part): the step in which such a call fails Unauthorized changes
\* nothing in the store, and the store changes only in a step that issues a
\* write.
C3_Step ==
  /\ (\E r \in Slots :
        /\ reqs[r].op \in OwnerGuardedOps
        /\ reqs[r].pc # "failed" /\ reqs'[r].pc = "failed"
        /\ reqs'[r].err = NotAuthorized) => UNCHANGED storeVars
  /\ storeVars' # storeVars =>
       \E r \in Slots : reqs'[r].writes = reqs[r].writes + 1

\* C3: the mutating call of updatePost, deletePost, updateComment and
\* deleteComment comes only after the load and a passed authorize; a USER
\* who is not the owner gets Unauthorized and the resource stays as it was,
\* an ADMIN doing the same gets through.
C3_AuthorizeBeforeMutation == []C3_Inv /\ [][C3_Step]_vars

\* C3 witness: the USER's updatePost of the ADMIN's post has failed
\* Unauthorized and left it alone; the ADMIN's updatePost of the USER's post
\* has changed it.
C3_Witness ==
  \E r, w \in Slots :
    /\ reqs[r].op = "updatePost" /\ reqs[r].role = "USER"
    /\ reqs[r].loaded = reqs[r].postId /\ reqs[r].owner # reqs[r].caller
    /\ reqs[r].pc = "failed" /\ reqs[r].err = NotAuthorized
    /\ \E p \in posts : p.id = reqs[r].postId /\ p.caption = 0
    /\ reqs[w].op = "updatePost" /\ reqs[w].role = "ADMIN"
    /\ reqs[w].owner # reqs[w].caller /\ reqs[w].pc = "done"
    /\ \E p \in posts : p.id = reqs[w].postId /\ p.caption = 1

\* the mutations whose resolver requires an identity
IdentityOps ==
  {"createPost", "updatePost", "deletePost", "createComment", "updateComment",
   "deleteComment", "likePost", "unlikePost", "ratePost", "updateUser",
   "deleteUser"}

\* C4 (state part): a call of an identity-requiring mutation with an absent
\* caller has failed Unauthenticated and has issued no persistence call,
\* read or write.
C4_Inv ==
  \A r \in Slots :
    LET q == reqs[r] IN
    (q.op \in IdentityOps /\ q.caller = None) =>
      /\ q.pc = "failed" /\ q.err.code = UNAUTHENTICATED
      /\ q.reads = 0 /\ q.writes = 0

\* C4 (step part): the step that takes such a call leaves the store as it was.
C4_Step ==
  (\E r \in Slots : reqs'[r].op \in IdentityOps /\ reqs'[r].caller = None
                    /\ reqs[r].op = "none")
    => UNCHANGED storeVars

\* C4: every identity-requiring mutation called with an absent caller fails
\* Unauthenticated before any persistence call, the stored state unchanged.
C4_UnauthenticatedFirst == []C4_Inv /\ [][C4_Step]_vars

\* C4 witness: createPost and deleteUser, both called with no caller, have
\* failed Unauthenticated with the store still as seeded.
C4_Witness ==
  /\ reqs[1].op = "createPost" /\ reqs[1].caller = None
  /\ reqs[1].pc = "failed" /\ reqs[1].err = NotAuthenticated
  /\ reqs[2].op = "deleteUser" /\ reqs[2].caller = None
  /\ reqs[2].pc = "failed" /\ reqs[2].err = NotAuthenticated
  /\ users = InitUsers /\ posts = InitPosts

\* C5: in every reachable state, whatever the interleaving of createComment,
\* updateComment, deleteComment, deletePost and deleteUser, every stored
\* comment whose parent id is set references a stored comment of the same
\* post.
C5_ParentSamePost ==
  \A c \in comments :
    c.parentId # None =>
      \E parent \in comments : parent.id = c.parentId /\ parent.postId = c.postId

\* C5 witness: a createComment found its parent, the parent was deleted
\* before the create was issued, and the create was refused although the
\* post and the author are still stored; a reply is stored under a parent.
C5_Witness ==
  /\ \E r \in Slots :
       /\ reqs[r].op = "createComment" /\ reqs[r].loaded = reqs[r].parentId
       /\ reqs[r].parentId # None /\ reqs[r].parentId \notin CommentIdsOf(comments)
       /\ reqs[r].pc = "failed" /\ reqs[r].err = P2003 /\ reqs[r].writes = 1
       /\ UserPostFkOk(reqs[r].caller, reqs[r].postId)
  /\ \E c \in comments : c.parentId # None

(***************************************************************************)
(* Properties of the classifier and the transport                          *)
(***************************************************************************)
\* the failures raised by the integrity rules and the authorization policy
PolicyFailures == AuthFailures \cup IntegrityFailures

\* C6, as stated: whenever ErrorHandler.handle has classified a failure
\* thrown by the services or by AuthMiddleware, the external error has the
\* code and the message of the failure raised.
C6_PolicyFailurePassesThrough ==
  (stage = "classified" /\ failure \in PolicyFailures)
    => (external.code = failure.code /\ external.message = failure.message)

\* C7, as stated: whenever a failure has left a server, in whatever
\* configuration, it has been through ErrorHandler.handle and carries a
\* declared code, a message and a numeric status.
C7_ClassifiedAtBoundary ==
  stage = "sent"
    => /\ response.classified
       /\ response.code \in ErrorCodes
       /\ response.message # <<>>
       /\ response.statusCode # None

\* rule 1: the failure carries one of the declared kinds
CarriesDeclaredKind(f) == f.code \in ErrorCodes

\* rule 2: a uniqueness violation of the persistence layer
IsUniquenessViolation(f) ==
  /\ f.name = "PrismaClientKnownRequestError"
  /\ Includes(f.message, "Unique constraint failed")

\* rule 3: a row missing on update or delete in the persistence layer
IsMissingRow(f) ==
  /\ f.name = "PrismaClientKnownRequestError"
  /\ \/ Includes(f.message, "Record to update not found")
     \/ Includes(f.message, "Record to delete does not exist")

\* rule 4: an input-shape validation failure
IsShapeValidation(f) == f.name = "ValidationError"

MatchesNoRule(f) ==
  /\ ~CarriesDeclaredKind(f) /\ ~IsUniquenessViolation(f)
  /\ ~IsMissingRow(f) /\ ~IsShapeValidation(f)

\* C8: whenever ErrorHandler.handle has classified a failure that matches
\* none of rules 1-4, the external error is the one fixed value: code
\* INTERNAL_SERVER_ERROR, status 500, message "Internal server error", no
\* details -- the same for any two such failures.
C8_FallbackIsFixed ==
  (stage = "classified" /\ MatchesNoRule(failure))
    => external = External(<<"Internal server error">>,
                           INTERNAL_SERVER_ERROR, 500, Undefined)

\* a thrown value with a message and details of its own has been classified
C8_Witness ==
  /\ stage = "classified"
  /\ MatchesNoRule(failure)
  /\ failure.message # <<"Internal server error">>
  /\ failure.details # Undefined
  /\ external.message = <<"Internal server error">>

(***************************************************************************)
(* Properties of the credential codec                                      *)
(***************************************************************************)
\* the credential presented has an expiry, and it is not after the clock
PastExpiry == token.exp # None /\ token.exp <= now

\* the credential presented is a JWT signed with the configured secret
SignedWithSecret ==
  token.form = "jwt" /\ jwtSecret # Undefined /\ token.key = jwtSecret

\* the failure of a verification is the spec's ExpiredCredential
IsExpiredCredential(v) ==
  /\ v.status = "thrown"
  /\ \/ v.class = Utils /\ v.message = "Authentication token expired"
     \/ v.class = TestUtils /\ v.name = "TokenExpiredError"

\* the failure of a verification is the spec's InvalidCredential
IsInvalidCredential(v) ==
  /\ v.status = "thrown"
  /\ \/ v.class = Utils /\ v.message = "Invalid authentication token"
     \/ v.class = TestUtils /\ v.name \in {"JsonWebTokenError", "NotBeforeError"}

\* C9, as stated: a verification returns the claims only of a credential
\* signed with the configured secret, not past its expiry, of the
\* configured issuer and audience, whose payload has a userId.
C9_AcceptsOnlyComplete ==
  verdict.status = "returned"
    => /\ SignedWithSecret
       /\ ~PastExpiry
       /\ token.iss = defaultOptions(verdict.class).issuer
       /\ token.aud = defaultOptions(verdict.class).audience
       /\ token.userId # Undefined

\* C10, as stated: the verification of a credential past its expiry fails
\* with ExpiredCredential, whatever its signature.
C10_ExpiredWhateverSignature ==
  (verdict.status # "none" /\ PastExpiry) => IsExpiredCredential(verdict)

\* the credential presented passes every check made before the expiry check
Authentic ==
  /\ SignedWithSecret /\ token.alg = "HS256"
  /\ (token.nbf = None \/ token.nbf <= now)

\* C10, amended: the verification of a credential past its expiry always
\* fails; it fails with ExpiredCredential when the credential is an HS256
\* JWT signed with the configured secret and already active, and with
\* InvalidCredential when a secret is configured and the credential is not
\* signed with it.
C10_ExpiredAfterSignature ==
  (verdict.status # "none" /\ PastExpiry)
    => /\ verdict.status = "thrown"
       /\ Authentic => IsExpiredCredential(verdict)
       /\ (jwtSecret # Undefined /\ ~SignedWithSecret)
            => IsInvalidCredential(verdict)

\* an authentic credential past its expiry has been verified
C10_Witness ==
  /\ verdict.status = "thrown" /\ verdict.class = Utils
  /\ PastExpiry /\ Authentic
  /\ token.userId # Undefined

\* the minted credential carries the subject id, username and role of c
SameSubject(c, d) ==
  d.userId = c.userId /\ d.username = c.username /\ d.role = c.role

\* C11, as stated: when a credential has been verified and refreshed by the
\* same JwtUtils, a failed verification means the refresh failed with the
\* same failure, and a successful one means the refresh returned a
\* credential with the same userId, username and role.
C11_ReissueFailsAsVerify ==
  (verdict.status # "none" /\ minted.status # "none"
     /\ verdict.class = minted.class)
    => /\ verdict.status = "thrown"
            => /\ minted.status = "thrown"
               /\ minted.name = verdict.name
               /\ minted.message = verdict.message
       /\ verdict.status = "returned"
            => /\ minted.status = "returned"
               /\ SameSubject(token, minted.payload)

\* C12: when generateToken has been called with a payload that has a userId,
\* a secret configured and the default issuer, it returned a credential; and
\* when the same JwtUtils has verified that credential before its expiry,
\* the verification returned the userId, username and role of the payload.
C12_VerifyOfIssue ==
  (minted.status # "none" /\ jwtSecret # Undefined
     /\ issuing.userId # Undefined /\ issuing.issuer = Undefined)
    => /\ minted.status = "returned"
       /\ (verdict.status # "none" /\ verdict.class = minted.class
             /\ now < token.exp)
            => /\ verdict.status = "returned"
               /\ SameSubject(issuing, verdict.payload)

\* a credential with userId, username and role was verified by the JwtUtils
\* that issued it, later than its issuing and before its expiry
C12_Witness ==
  /\ verdict.status = "returned" /\ verdict.class = minted.class
  /\ issuing.userId # Undefined /\ issuing.username # Undefined
  /\ issuing.issuer = Undefined
  /\ token.iat < now /\ now < token.exp

(***************************************************************************)
(* Properties of calls made one after the other                            *)
(***************************************************************************)
\* the call of slot r has returned or thrown
Over(r) == reqs[r].pc \in {"done", "failed"}

\* the calls of slots r and r + 1 are the same operation by the same
\* authenticated caller on the same post, both are over and no later call
\* has begun
SamePair(r, op) ==
  /\ r + 1 \in Slots
  /\ reqs[r].op = op /\ reqs[r + 1].op = op
  /\ reqs[r].caller # None /\ reqs[r + 1].caller = reqs[r].caller
  /\ reqs[r + 1].postId = reqs[r].postId
  /\ Over(r) /\ Over(r + 1)
  /\ \A s \in Slots : s > r + 1 => reqs[s].pc = "idle"

\* C13: when likePost(p, u) has been called twice in succession for an
\* existing post p, both calls returned, with the same Like id, the second
\* call issued no write, and there is exactly one Like row for (u, p).
C13_LikeTwice ==
  \A r \in Slots :
    (SamePair(r, "likePost") /\ reqs[r].postId \in PostIdsOf(posts))
      => /\ reqs[r].pc = "done" /\ reqs[r + 1].pc = "done"
         /\ reqs[r + 1].result = reqs[r].result
         /\ reqs[r + 1].writes = 0
         /\ Cardinality({l \in likes : l.userId = reqs[r].caller
                                       /\ l.postId = reqs[r].postId}) = 1

\* the second of two successive likePost calls has returned
C13_Witness ==
  \E r \in Slots :
    /\ SamePair(r, "likePost") /\ reqs[r].postId \in PostIdsOf(posts)
    /\ reqs[r].writes = 1 /\ reqs[r + 1].pc = "done"

\* C14: when ratePost(p, u, v1) and then ratePost(p, u, v2) have been called
\* in succession for an existing post p with v1, v2 in 1..5, both returned,
\* there is exactly one Rating row for (u, p), it has the id the first call
\* returned and the value v2, and the average rating of p is that of v2 and
\* the other users' ratings.
C14_RateTwice ==
  \A r \in Slots :
    (/\ SamePair(r, "ratePost") /\ reqs[r].postId \in PostIdsOf(posts)
     /\ reqs[r].value \in 1..5 /\ reqs[r + 1].value \in 1..5)
      => LET u == reqs[r].caller
             p == reqs[r].postId
             mine == {g \in ratings : g.userId = u /\ g.postId = p}
             others == {g \in ratings : g.userId # u /\ g.postId = p}
             avg == getAverageRatingForPost(p)
         IN  /\ reqs[r].pc = "done" /\ reqs[r + 1].pc = "done"
             /\ Cardinality(mine) = 1
             /\ \A g \in mine : g.id = reqs[r].result
                                /\ g.value = reqs[r + 1].value
             /\ avg.count = Cardinality(others) + 1
             /\ avg.sum = SumValues(others) + reqs[r + 1].value

\* a post was rated 3 and then 5 by the same user
C14_Witness ==
  \E r \in Slots :
    /\ SamePair(r, "ratePost") /\ reqs[r].postId \in PostIdsOf(posts)
    /\ reqs[r].value = 3 /\ reqs[r + 1].value = 5
    /\ reqs[r + 1].pc = "done"
    /\ getAverageRatingForPost(reqs[r].postId) = [sum |-> 5, count |-> 1]

(***************************************************************************)
(* Properties of single calls                                              *)
(***************************************************************************)
\* the call q of an authenticated caller has thrown a failure of this code
\* without having issued a write
FailedWith(q, code) ==
  q.pc = "failed" /\ q.err.code = code /\ q.writes = 0

\* C15: a ratePost call with a value outside 1..5 has failed with
\* BAD_USER_INPUT before any read or write, whether the post exists or not;
\* a ratePost call with a value in 1..5 on a post that does not exist has,
\* once over, failed with NOT_FOUND without a write; and every stored Rating
\* has a value in 1..5.
C15_RatingRange ==
  /\ \A r \in Slots :
       (reqs[r].op = "ratePost" /\ reqs[r].caller # None)
         => /\ reqs[r].value \notin 1..5
                 => (FailedWith(reqs[r], BAD_USER_INPUT) /\ reqs[r].reads = 0)
            /\ (/\ reqs[r].value \in 1..5 /\ Over(r)
                /\ reqs[r].postId \notin PostIdsOf(posts))
                 => FailedWith(reqs[r], NOT_FOUND)
  /\ \A g \in ratings : g.value \in 1..5

\* a rating of 6 for a post that does not exist was refused while a rating
\* is stored
C15_Witness ==
  /\ ratings # {}
  /\ \E r \in Slots :
       /\ reqs[r].op = "ratePost" /\ reqs[r].caller # None
       /\ reqs[r].value = 6 /\ reqs[r].postId \notin PostIdsOf(posts)
       /\ FailedWith(reqs[r], BAD_USER_INPUT)

\* the call of slot r is over and no later call has begun
Latest(r) ==
  Over(r) /\ \A s \in Slots : s > r => reqs[s].pc = "idle"

\* C16, as stated: a createComment call made on its own has failed with
\* NOT_FOUND if its post does not exist, with NOT_FOUND if a parent id was
\* supplied and no such comment exists, with BAD_USER_INPUT if the parent is
\* a comment of another post, each time without a write; and if it returned,
\* the comment it created has the parent id supplied.
C16_CreateCommentChecks ==
  \A r \in Slots :
    (Latest(r) /\ reqs[r].op = "createComment" /\ reqs[r].caller # None)
      => LET q == reqs[r]
             parent == FindUnique(comments, q.parentId)
         IN  /\ q.postId \notin PostIdsOf(posts) => FailedWith(q, NOT_FOUND)
             /\ (/\ q.postId \in PostIdsOf(posts)
                 /\ q.parentId # None /\ ~Found(parent))
                  => FailedWith(q, NOT_FOUND)
             /\ (/\ q.postId \in PostIdsOf(posts)
                 /\ q.parentId # None /\ Found(parent)
                 /\ parent.postId # q.postId)
                  => FailedWith(q, BAD_USER_INPUT)
             /\ q.pc = "done"
                  => \E c \in comments :
                       /\ c.id = q.result /\ c.parentId = q.parentId
                       /\ c.postId = q.postId /\ c.userId = q.caller

(***************************************************************************)
(* Properties of the comment tree                                          *)
(***************************************************************************)
\* the row of table with this id, as it would read with its parent cleared
Orphaned(x) == [x EXCEPT !.parentId = None]

\* the final step of a deleteComment call of slot r: the delete returns
Deletes(r) ==
  /\ reqs[r].op = "deleteComment" /\ reqs[r].pc = "comment.delete"
  /\ reqs'[r].pc = "done"

\* C17: the step in which an authorized deleteComment(c) returns removes
\* exactly the row c from the comment table; every reply to c is still
\* stored, with its parent id cleared and its other fields unchanged; every
\* other comment, deeper descendants of c included, is stored unchanged; and
\* no other table changes.
C17_DeleteCommentFrame ==
  [][\A r \in Slots :
       Deletes(r)
         => LET c == reqs[r].commentId IN
            /\ reqs'[r].result = 1
            /\ c \in CommentIdsOf(comments)
            /\ CommentIdsOf(comments') = CommentIdsOf(comments) \ {c}
            /\ Cardinality(comments') = Cardinality(comments) - 1
            /\ \A x \in comments :
                 x.id # c =>
                   IF x.parentId = c THEN Orphaned(x) \in comments'
                                     ELSE x \in comments'
            /\ users' = users /\ posts' = posts
            /\ likes' = likes /\ ratings' = ratings]_vars

\* the first comment was deleted by a call that returned; its reply is
\* stored with no parent, and a reply to that reply still names it as parent
C17_Witness ==
  LET top == Cardinality(InitPosts) + 1 IN
  /\ \E r \in Slots :
       /\ reqs[r].op = "deleteComment" /\ reqs[r].pc = "done"
       /\ reqs[r].commentId = top
  /\ top \notin CommentIdsOf(comments)
  /\ \E x \in comments : x.id = top + 1 /\ x.parentId = None
  /\ \E y \in comments : y.parentId = top + 1

\* following parent ids from comment c reaches a comment with no parent in
\* at most fuel steps
RECURSIVE Rooted(_, _)
Rooted(c, fuel) ==
  \/ c.parentId = None
  \/ /\ fuel > 0
     /\ \E p \in comments : p.id = c.parentId /\ Rooted(p, fuel - 1)

\* the parent relation of the stored comments has no cycle and no loose end
Acyclic == \A c \in comments : Rooted(c, Cardinality(comments))

\* a step sets a parent id only on a row it creates, to a comment stored
\* before the step, and changes a stored row's parent id at most to null
ParentsSetAtCreation ==
  \A y \in comments' :
    IF y.id \in CommentIdsOf(comments)
      THEN \A x \in comments :
             x.id = y.id => (y.parentId = x.parentId \/ y.parentId = None)
      ELSE y.parentId = None \/ y.parentId \in CommentIdsOf(comments)

\* C18: in every reachable state, following parent ids from any comment
\* reaches a comment with no parent in finitely many steps; and in every step
\* a parent id is set only at creation, to an already stored comment, and no
\* operation changes a stored comment's parent id to another comment.
C18_ParentForest == []Acyclic /\ [][ParentsSetAtCreation]_vars

\* a reply to a reply was created by a call that returned, so the tree is
\* three deep, and an updateComment call on a reply has returned
C18_Witness ==
  /\ \E r \in Slots :
       /\ reqs[r].op = "createComment" /\ reqs[r].pc = "done"
       /\ \E c \in comments, p \in comments :
            /\ c.id = reqs[r].result /\ c.parentId = p.id
            /\ p.parentId # None
  /\ \E r \in Slots :
       /\ reqs[r].op = "updateComment" /\ reqs[r].pc = "done"
       /\ \E c \in comments : c.id = reqs[r].commentId /\ c.parentId # None

(***************************************************************************)
(* Properties of calls made one at a time                                  *)
(***************************************************************************)
\* the Likes stored for the user and post of call q
LikesOf(q) == {l \in likes : l.userId = q.caller /\ l.postId = q.postId}

\* the unlikePost call of slot r takes a step from the await named pc
UnlikeStep(r, pc) ==
  /\ reqs[r].op = "unlikePost" /\ reqs[r].pc = pc
  /\ reqs'[r] # reqs[r]

\* C19: an unlikePost(p, u) call answered before any other call begins:
\* at its lookup, if no Like is stored for (u, p) it fails with NOT_FOUND
\* without a write and nothing stored changes, and if one is stored it goes
\* on to the delete; at its delete it removes exactly the one Like of (u, p),
\* returns true, and every other Like and every other table is unchanged.
C19_UnlikeFrame ==
  [][\A r \in Slots :
       /\ UnlikeStep(r, "like.findFirst")
            => /\ UNCHANGED <<users, posts, comments, likes, ratings>>
               /\ IF LikesOf(reqs[r]) = {}
                    THEN FailedWith(reqs'[r], NOT_FOUND)
                    ELSE reqs'[r].pc = "like.delete"
       /\ UnlikeStep(r, "like.delete")
            => /\ Cardinality(LikesOf(reqs[r])) = 1
               /\ reqs'[r].pc = "done" /\ reqs'[r].result = 1
               /\ likes' = likes \ LikesOf(reqs[r])
               /\ UNCHANGED <<users, posts, comments, ratings>>]_vars

\* an unlikePost call has returned true, the Like of its user and post is
\* gone and the Like of another user for the same post is still stored
C19_Witness ==
  \E r \in Slots :
    /\ reqs[r].op = "unlikePost" /\ reqs[r].pc = "done" /\ reqs[r].result = 1
    /\ LikesOf(reqs[r]) = {}
    /\ \E l \in likes : l.postId = reqs[r].postId /\ l.userId # reqs[r].caller

(***************************************************************************)
(* Properties of the authorization policy                                  *)
(***************************************************************************)
\* the authorize call of slot r has run
Authorized(r) == reqs[r].op = "authorize" /\ Over(r)

\* C20: for all caller ids u, owner ids v and roles r, the absent role
\* included, authorize(u, v, r) returns iff u = v or r = "ADMIN" and otherwise
\* throws the UNAUTHORIZED failure; and a step of authorize changes nothing
\* in the store, in the other calls or in its own arguments.
C20_AuthorizeIff ==
  /\ [](\A r \in Slots :
          Authorized(r)
            => LET q == reqs[r] IN
               /\ q.pc = "done"
                    <=> (q.caller = q.owner \/ q.role = "ADMIN")
               /\ q.pc = "done" => q.err = NoError
               /\ q.pc = "failed"
                    => /\ q.err.code = UNAUTHORIZED
                       /\ q.err.message = <<"Not authorized">>)
  /\ [][\A r \in Slots :
          (reqs[r].pc = "authorize" /\ reqs'[r] # reqs[r])
            => /\ UNCHANGED <<users, posts, comments, likes, ratings, nextId>>
               /\ \A s \in Slots : s # r => reqs'[s] = reqs[s]
               /\ reqs'[r].caller = reqs[r].caller
               /\ reqs'[r].owner = reqs[r].owner
               /\ reqs'[r].role = reqs[r].role]_vars

\* an ADMIN was let through to another user's resource while a caller with
\* no role was refused another user's resource
C20_Witness ==
  \E r \in Slots, s \in Slots :
    /\ Authorized(r) /\ reqs[r].role = "ADMIN"
    /\ reqs[r].caller # reqs[r].owner /\ reqs[r].pc = "done"
    /\ Authorized(s) /\ reqs[s].role = Undefined
    /\ reqs[s].caller # reqs[s].owner /\ reqs[s].pc = "failed"

\* C21: an isAdmin call that has run failed with UNAUTHENTICATED if the
\* caller is absent, failed with UNAUTHORIZED if the caller is present with
\* a role other than ADMIN, and returned the caller otherwise; and a users
\* listing has read or returned rows only for a caller whose role is ADMIN,
\* failing with UNAUTHENTICATED for no caller and UNAUTHORIZED for another
\* role.
C21_AdminGate ==
  \A r \in Slots :
    LET q == reqs[r] IN
    /\ (q.op = "isAdmin" /\ Over(r))
         => /\ q.caller = None => FailedWith(q, UNAUTHENTICATED)
            /\ (q.caller # None /\ q.role # "ADMIN")
                 => FailedWith(q, UNAUTHORIZED)
            /\ (q.caller # None /\ q.role = "ADMIN")
                 => (q.pc = "done" /\ q.result = q.caller)
    /\ q.op = "users"
         => /\ (q.reads > 0 \/ q.pc = "done")
                 => (q.caller # None /\ q.role = "ADMIN")
            /\ (Over(r) /\ q.caller = None) => FailedWith(q, UNAUTHENTICATED)
            /\ (Over(r) /\ q.caller # None /\ q.role # "ADMIN")
                 => (FailedWith(q, UNAUTHORIZED) /\ q.reads = 0)
            /\ (Over(r) /\ q.caller # None /\ q.role = "ADMIN")
                 => (q.pc = "done" /\ q.result = Cardinality(users))

\* isAdmin refused a caller with no role while the users listing was
\* returned to an ADMIN
C21_Witness ==
  \E r \in Slots, s \in Slots :
    /\ reqs[r].op = "isAdmin" /\ reqs[r].caller # None
    /\ reqs[r].role = Undefined /\ FailedWith(reqs[r], UNAUTHORIZED)
    /\ reqs[s].op = "users" /\ reqs[s].role = "ADMIN" /\ reqs[s].pc = "done"

(***************************************************************************)
(* Properties of the external error taxonomy                               *)
(***************************************************************************)
\* the numeric status the taxonomy fixes for a kind
StatusOf(code) ==
  CASE code = NOT_FOUND -> 404
    [] code = VALIDATION_ERROR -> 400
    [] code = UNAUTHENTICATED -> 401
    [] code = UNAUTHORIZED -> 403
    [] code = CONFLICT -> 409
    [] code = BAD_USER_INPUT -> 400
    [] code = RATE_LIMIT_EXCEEDED -> 429
    [] code = INTERNAL_SERVER_ERROR -> 500
    [] OTHER -> None

\* e is an external error of a declared kind carrying that kind's status
KindWithStatus(e) ==
  /\ e.cls = "GraphQLError"
  /\ e.code \in ErrorCodes
  /\ e.statusCode = StatusOf(e.code)

\* C22, as stated: whenever ErrorHandler.handle has classified a failure,
\* the external error has one of the eight declared kinds and the fixed
\* status of that kind; and every failure constructed by the authorization
\* policy and the integrity rules has a declared kind and that kind's status.
C22_KindHasFixedStatus ==
  /\ stage = "classified" => KindWithStatus(external)
  /\ failure \in (AuthFailures \cup IntegrityFailures)
       => KindWithStatus(failure)

(***************************************************************************)
(* Properties of concurrent calls                                          *)
(***************************************************************************)
\* the calls of slots r and s are two requests of the same operation by the
\* same authenticated caller with the same arguments, and both are over
Identical(r, s, op) ==
  /\ r # s
  /\ reqs[r].op = op /\ reqs[s].op = op
  /\ reqs[r].caller # None /\ reqs[s].caller = reqs[r].caller
  /\ reqs[s].postId = reqs[r].postId /\ reqs[s].value = reqs[r].value
  /\ Over(r) /\ Over(s)

\* call q returned, or the error its caller receives has kind CONFLICT
EndsInResultOrConflict(q) ==
  \/ q.pc = "done"
  \/ /\ q.pc = "failed"
     /\ \A srv \in Servers, env \in NodeEnvs :
          Answer(q.err, srv, env).code = CONFLICT

\* C23, as stated: of two identical likePost requests, or two identical
\* ratePost requests with a value in range, for an existing post, each has
\* ended with a result or with an external error of kind CONFLICT.
C23_RaceEndsInConflict ==
  \A r \in Slots, s \in Slots :
    (/\ Identical(r, s, "likePost") \/ Identical(r, s, "ratePost")
     /\ reqs[r].postId \in PostIdsOf(posts)
     /\ reqs[r].op = "ratePost" => reqs[r].value \in 1..5)
      => EndsInResultOrConflict(reqs[r])

\* the failure is the persistence client's report of a row that an update
\* or a delete did not find
MissingRowReport(f) ==
  f.name = "PrismaClientKnownRequestError" /\ f.code = "P2025"

\* C24, as stated: whenever ErrorHandler.handle has classified a persistence
\* failure reporting a missing row, on update or on delete, the external
\* error has kind NOT_FOUND and status 404.
C24_MissingRowIsNotFound ==
  (stage = "classified" /\ MissingRowReport(failure))
    => (external.code = NOT_FOUND /\ external.statusCode = 404)

(***************************************************************************)
(* Properties of the rating aggregate                                      *)
(***************************************************************************)
\* the value user u has stored for post p, 0 when u has not rated p
ValueBy(u, p) ==
  LET mine == {g \in ratings : g.userId = u /\ g.postId = p}
  IN  IF mine = {} THEN 0 ELSE (CHOOSE g \in mine : TRUE).value

\* the values the users us have stored for post p, added up
RECURSIVE SumOver(_, _)
SumOver(us, p) ==
  IF us = {} THEN 0
  ELSE LET u == CHOOSE x \in us : TRUE
       IN  ValueBy(u, p) + SumOver(us \ {u}, p)

\* C25: in every reachable state and for every post p, the average rating
\* of p is the sum of the values stored for p by its raters divided by the
\* number of those raters, and it is absent (count 0 in the model, null in
\* the code) exactly when no Rating is stored for p.
C25_AverageIsMean ==
  \A p \in PostArgs :
    LET avg == getAverageRatingForPost(p)
        raters == {u \in UserIdsOf(users) :
                     \E g \in ratings : g.userId = u /\ g.postId = p}
    IN  /\ avg.count = Cardinality(raters)
        /\ avg.sum = SumOver(raters, p)
        /\ avg.count = 0 <=> ~\E g \in ratings : g.postId = p

\* one post has the ratings 3 and 5, mean 8 / 2, while another has ratings
\* and a third has none
C25_Witness ==
  \E p \in PostArgs, o \in PostArgs, n \in PostArgs :
    /\ getAverageRatingForPost(p) = [sum |-> 8, count |-> 2]
    /\ \E g \in ratings, h \in ratings :
         g.postId = p /\ h.postId = p /\ g.value = 3 /\ h.value = 5
    /\ o # p /\ getAverageRatingForPost(o).count = 1
    /\ getAverageRatingForPost(n).count = 0

(***************************************************************************)
(* Properties of failing calls                                             *)
(***************************************************************************)
\* C26, as stated: no call returns a failure after having changed persistent
\* state.  Every operation issues at most one write, as its last request to
\* the store, so the claim is that a step in which a call changes the store
\* is a step in which that call returns: a call that ends with an error has
\* left the store as it was.
C26_NoFailureAfterWrite ==
  [][\A r \in Slots :
       (reqs'[r] # reqs[r] /\ reqs'[r].pc # "done")
         => UNCHANGED <<users, posts, comments, likes, ratings>>]_vars

(***************************************************************************)
(* Properties of the request context                                       *)
(***************************************************************************)
\* the credential in use passes verification at the server: an HS256 token
\* signed with the configured secret, not expired, active, of the server's
\* issuer and audience
PassesVerify ==
  /\ SignedWithSecret /\ token.alg = "HS256" /\ ~PastExpiry
  /\ (token.nbf = None \/ token.nbf <= now)
  /\ token.iss = "your-app-name" /\ token.aud = "your-app-client"

\* the request of slot r carried the credential, it passes verification and
\* names a subject
Credited(r) ==
  reqs[r].value = 1 /\ PassesVerify /\ token.userId # Undefined

\* the context of a request never fails it; a caller it resolved came from a
\* credential that passes verification and has the id of the credential's
\* subject; a mutation entered with no caller has failed UNAUTHENTICATED
C27_Inv ==
  \A r \in Slots :
    LET q == reqs[r] IN
    /\ q.op = "request" => q.pc # "failed"
    /\ (q.op \in {"request", "createPost", "deleteUser"} /\ q.caller # None)
         => (Credited(r) /\ q.caller = IdOf(token.userId))
    /\ (q.op \in {"createPost", "deleteUser"} /\ q.caller = None)
         => FailedWith(q, UNAUTHENTICATED)

\* the step in which a context resolves a caller finds that user stored
C27_Step ==
  \A r \in Slots :
    (reqs[r].op = "request" /\ reqs[r].caller = None
     /\ reqs'[r].caller # None)
      => \E u \in users : u.id = reqs'[r].caller /\ u.role = reqs'[r].role

\* C27: the request context resolves a caller only if the bearer credential
\* passes verify and a user with its subject id is stored at that moment, and
\* then the caller's id is that subject id; a missing, malformed, expired or
\* wrongly signed credential, or one whose user has been deleted, gives an
\* absent caller without failing the request, and the identity-requiring
\* mutation that follows fails UNAUTHENTICATED.
C27_ContextResolvesCaller == []C27_Inv /\ [][C27_Step]_vars

\* a user deleted their account with a credential that passes verification;
\* a later request with the same credential looked the user up, got an absent
\* caller, and its createPost failed UNAUTHENTICATED
C27_Witness ==
  \E r \in Slots, s \in Slots :
    /\ reqs[r].op = "deleteUser" /\ reqs[r].pc = "done"
    /\ reqs[r].caller = IdOf(token.userId)
    /\ reqs[s].op = "createPost" /\ Credited(s) /\ reqs[s].reads = 1
    /\ reqs[s].caller = None /\ FailedWith(reqs[s], UNAUTHENTICATED)

\* the calls of slots r and s are two unlikePost requests of one user for
\* one post whose lookups found the same Like, and both are over
SameLikeFound(r, s) ==
  /\ Identical(r, s, "unlikePost")
  /\ reqs[r].loaded # None /\ reqs[s].loaded = reqs[r].loaded

\* C28, as stated: of two unlikePost requests whose lookups both found the
\* Like before either delete, exactly one has returned (true), the Like is
\* gone, and the other has ended with an external error of kind NOT_FOUND.
C28_UnlikeRaceEndsNotFound ==
  \A r \in Slots, s \in Slots :
    SameLikeFound(r, s)
      => /\ (reqs[r].pc = "done") # (reqs[s].pc = "done")
         /\ reqs[r].pc = "done" => reqs[r].result = 1
         /\ reqs[r].loaded \notin {l.id : l \in likes}
         /\ reqs[r].pc = "failed"
              => \A srv \in Servers, env \in NodeEnvs :
                   Answer(reqs[r].err, srv, env).code = NOT_FOUND

(***************************************************************************)
(* Properties of referential integrity                                     *)
(***************************************************************************)
\* every stored Comment, Like and Rating is of a stored post and a stored
\* user (and every stored post of a stored user)
Referenced ==
  /\ \A p \in posts : p.userId \in UserIdsOf(users)
  /\ \A c \in comments :
       c.postId \in PostIdsOf(posts) /\ c.userId \in UserIdsOf(users)
  /\ \A l \in likes :
       l.postId \in PostIdsOf(posts) /\ l.userId \in UserIdsOf(users)
  /\ \A g \in ratings :
       g.postId \in PostIdsOf(posts) /\ g.userId \in UserIdsOf(users)

\* the step in which deletePost(p) returns leaves no comment, like or
\* rating of p; the step in which deleteUser(u) returns leaves no post,
\* comment, like or rating of u, and every comment of another user on a
\* post that survives is still stored, its parent id cleared if its parent
\* went and unchanged otherwise
DeletionCascades ==
  \A r \in Slots :
    /\ (reqs[r].op = "deletePost" /\ reqs[r].pc = "post.delete"
        /\ reqs'[r].pc = "done")
         => LET p == reqs[r].postId IN
            /\ p \in PostIdsOf(posts) /\ p \notin PostIdsOf(posts')
            /\ ~\E c \in comments' : c.postId = p
            /\ ~\E l \in likes' : l.postId = p
            /\ ~\E g \in ratings' : g.postId = p
    /\ (reqs[r].op = "deleteUser" /\ reqs[r].pc = "user.delete"
        /\ reqs'[r].pc = "done")
         => LET u == reqs[r].caller
                gone == CommentIdsOf(comments) \ CommentIdsOf(comments') IN
            /\ u \in UserIdsOf(users) /\ u \notin UserIdsOf(users')
            /\ ~\E p \in posts' : p.userId = u
            /\ ~\E c \in comments' : c.userId = u
            /\ ~\E l \in likes' : l.userId = u
            /\ ~\E g \in ratings' : g.userId = u
            /\ \A c \in comments :
                 (c.userId # u /\ c.postId \in PostIdsOf(posts'))
                   => IF c.parentId \in gone
                        THEN [c EXCEPT !.parentId = None] \in comments'
                        ELSE c \in comments'

\* C29: in every reachable state every stored Comment, Like and Rating
\* references a stored post and a stored user; deletePost(p) removes all
\* comments, likes and ratings of p, and deleteUser(u) removes all posts,
\* comments, likes and ratings of u, while replies by other users to u's
\* deleted comments on surviving posts are retained with parent id cleared.
C29_ReferencesExist == []Referenced /\ [][DeletionCascades]_vars

\* a user who had written a comment on a post that survives deleted their
\* account: another user's reply to that comment is stored with no parent
C29_Witness ==
  \E r \in Slots, s \in Slots :
    /\ reqs[r].op = "deleteUser" /\ reqs[r].pc = "done"
    /\ reqs[r].caller \notin UserIdsOf(users)
    /\ reqs[s].op = "createComment" /\ reqs[s].pc = "done"
    /\ reqs[s].parentId \in CommentIdsOf(InitComments)
    /\ reqs[s].parentId \notin CommentIdsOf(comments)
    /\ \E c \in comments :
         c.id = reqs[s].result /\ c.parentId = None /\ c.userId # reqs[r].caller

(***************************************************************************)
(* Properties of repeated classification                                   *)
(***************************************************************************)
\* C30, as stated: whenever ErrorHandler.handle has classified a failure,
\* classifying the external error again gives the same kind, message and
\* status, and so does sending it through the server and formatError.
C30_ClassifyTwice ==
  stage = "classified"
    => LET again == handle(external)
           sent == formatError(Formatted(external), "development")
       IN  /\ again.code = external.code
           /\ again.message = external.message
           /\ again.statusCode = external.statusCode
           /\ sent.code = external.code

====
